---- MODULE Spec2Model ----
(***************************************************************************)
(* CacheFlow: the Local Store (internal/cache Cache), its HTTP edge        *)
(* (internal/api Server) and the membership manager with its hash ring     *)
(* (internal/cluster), as state machines.                                  *)
(*                                                                         *)
(* Time: one unit of the clock `now` is one second.  time.Now().UnixNano() *)
(* is modelled by reading `now`; a ttl of n seconds adds n.  The clock     *)
(* starts at 1 because the Unix time of a running process is positive.     *)
(* The clock is non-decreasing: two operations may read the same instant.  *)
(***************************************************************************)
EXTENDS Integers, Sequences, FiniteSets, Bags, TLC

VARIABLES
    c,          \* the Cache of a single process: items, accessCount, evictionType, maxItems
    now,        \* the wall clock read by time.Now()
    last,       \* the last Local Store call and what it returned
    written,    \* per key: the latest set not yet deleted, evicted or overwritten
    pc,         \* position of the scripted client in its script (0 when no script runs)
    caches,     \* per process of the cluster: its Cache
    nms,        \* per process of the cluster: its NodeManager (membership table and ring)
    servers,    \* per process of the cluster: what its api.Server was wired with
    resp,       \* the last client request to the cluster and the response it got
    ring,       \* a ConsistentHash studied on its own
    rlast,      \* the last call on ring, what it returned and the ring before it
    manager,    \* a NodeManager studied on its own (membership table and ring)
    mlast,      \* the last call on manager and what it returned
    disk,       \* the files of the PersistenceManager: the target and <target>.tmp
    plast,      \* the last call of the PersistenceManager and how it ended
    engine,     \* the process that owns the files: its save loop, stop channel, life
    tasks,      \* the replication goroutines spawned and not yet run
    rep,        \* the last step of a ReplicationManager and what it did
    lister,     \* a handleListNodes call in progress: the slice it has allocated
    health,     \* the goroutine of StartHealthCheck: where it is in its loop
    guards      \* pm.mu and cache.mu: who holds them, and where each goroutine is

storeVars == <<c, last, pc>>
clusterVars == <<caches, nms, servers, resp>>
lateVars == <<tasks, rep, lister, health, guards>>
sideVars == <<ring, rlast, manager, mlast, disk, plast, engine, lateVars>>
vars == <<c, now, last, written, pc, caches, nms, servers, resp,
          ring, rlast, manager, mlast, disk, plast, engine,
          tasks, rep, lister, health, guards>>

\* ---------------------------------------------------------------- bounds
MaxTime == 4          \* the clock stops advancing here
MaxTTL == 1           \* the non-zero ttl (seconds) a caller passes
MaxCap == 2           \* largest capacity the store is constructed with
MaxCount == 2         \* reads of one key stop once its access count is here
ScriptMaxTime == 7    \* the clock bound while the scripted client runs
MaxHops == 3          \* longest chain of forwards followed
ClusterCap == 3       \* the capacity every process of the cluster is started with

Keys == {"a", "b"}
ScriptKeys == {"a", "b", "c", "d"}
ClusterKeys == {"k"}
AllKeys == Keys \cup ScriptKeys \cup ClusterKeys
Values == {"A", "B"}
TTLs == {0, MaxTTL}
Policies == {"lru", "lfu"}

\* Go's zero string: the value of oldestKey / leastUsedKey when the scan picks nothing.
NoKey == ""
NoEntry == [value |-> "", ttl |-> 0, at |-> 0]
\* The record of a key whose latest set was undone by a delete.
Deleted == [value |-> "", ttl |-> 0, at |-> -1]
NoCall == [op |-> "none", key |-> NoKey, value |-> "", found |-> FALSE, at |-> 0]
NoResp == [node |-> "", op |-> "none", key |-> NoKey, value |-> "", ttl |-> 0,
           status |-> 0, rvalue |-> "", trailer |-> FALSE]

\* ---------------------------------------------------------------- helpers
\* delete(m, k) on a Go map: removes k if present, no-op otherwise.
MapDelete(m, k) == [x \in (DOMAIN m) \ {k} |-> m[x]]

\* m[k] = v on a Go map.
MapPut(m, k, v) == [x \in (DOMAIN m) \cup {k} |-> IF x = k THEN v ELSE m[x]]

\* ---------------------------------------------------------------- Cache
NewCache(evictionType, maxItems) ==
    [items |-> <<>>, accessCount |-> <<>>,
     evictionType |-> evictionType, maxItems |-> maxItems]

\* The keys evictLRU can end its scan with in oldestKey.  The scan starts from
\* oldestAccess = now and keeps the first entry strictly older than what it
\* holds; map iteration order is unspecified, so any of the oldest entries
\* can be the one kept.  NoKey when no entry is older than now.
LRUVictims(cache, t) ==
    LET older == {k \in DOMAIN cache.items : cache.items[k].LastAccess < t}
    IN  IF older = {} THEN {NoKey}
        ELSE {k \in older :
                \A j \in older : cache.items[k].LastAccess <= cache.items[j].LastAccess}

\* The keys evictLFU can end its scan with in leastUsedKey.  The scan ranges
\* over accessCount, which holds only keys that were read (or restored).
LFUVictims(cache) ==
    LET counted == DOMAIN cache.accessCount
    IN  IF counted = {} THEN {NoKey}
        ELSE {k \in counted :
                \A j \in counted : cache.accessCount[k] <= cache.accessCount[j]}

\* A removal that takes the entry and leaves its access count.
RemoveEntryOnly(cache, k) == [cache EXCEPT !.items = MapDelete(cache.items, k)]

\* delete(c.items, k); delete(c.accessCount, k): the two lines every removal
\* of the cache consists of.
RemoveKey(cache, k) ==
    [cache EXCEPT !.items = MapDelete(cache.items, k),
                  !.accessCount = MapDelete(cache.accessCount, k)]

evictLRU(cache, t) == {RemoveKey(cache, k) : k \in LRUVictims(cache, t)}

evictLFU(cache) == {RemoveKey(cache, k) : k \in LFUVictims(cache)}

\* The set of stores evict() can leave behind.
evict(cache, t) ==
    IF cache.evictionType = "lru" THEN evictLRU(cache, t) ELSE evictLFU(cache)

\* Whether Set runs evict() before inserting.
NeedsEvict(cache, key) == Cardinality(DOMAIN cache.items) >= cache.maxItems

\* The Expiration field Set stores: time.Now().Add(ttl).UnixNano().
ExpirationOf(t, ttl) == t + ttl

\* Cache.Set: the set of stores it can leave behind (one per possible victim).
CacheSet(cache, key, value, ttl, t) ==
    LET afterEvict == IF NeedsEvict(cache, key) THEN evict(cache, t) ELSE {cache}
        item == [Value |-> value, Expiration |-> ExpirationOf(t, ttl), LastAccess |-> t]
    IN  {[e EXCEPT !.items = MapPut(e.items, key, item)] : e \in afterEvict}

\* The expiry test with the boundary instant counted as expired.
IsExpiredAtBoundary(item, t) == item.Expiration > 0 /\ item.Expiration <= t

\* The expiry test of Cache.Get.
IsExpired(item, t) == item.Expiration > 0 /\ item.Expiration < t

\* Cache.Get: the store it leaves behind and what it returns.
CacheGet(cache, key, t) ==
    IF key \notin DOMAIN cache.items
    THEN [cache |-> cache, value |-> "", found |-> FALSE]
    ELSE LET item == cache.items[key] IN
         IF IsExpired(item, t)
         THEN [cache |-> RemoveKey(cache, key), value |-> "", found |-> FALSE]
         ELSE [cache |->
                 [cache EXCEPT
                    !.items = MapPut(cache.items, key, [item EXCEPT !.LastAccess = t]),
                    !.accessCount = MapPut(cache.accessCount, key,
                        (IF key \in DOMAIN cache.accessCount
                         THEN cache.accessCount[key] ELSE 0) + 1)],
               value |-> item.Value, found |-> TRUE]

\* A delete that forgets the access count and leaves the entry.
CacheDeleteCountOnly(cache, key) ==
    [cache EXCEPT !.accessCount = MapDelete(cache.accessCount, key)]

\* Cache.Delete.
CacheDelete(cache, key) == RemoveKey(cache, key)

\* ---------------------------------------------------------------- bookkeeping
\* The latest set per key that is still in force: a set records itself, and
\* every key a set evicts, and every key a delete names, loses its record.
\* Removal of an expired entry by Get is none of these and keeps the record.
\* A delete that undoes a recorded set leaves the Deleted mark in its place.
WrittenAfterSet(before, after, key, value, ttl, t) ==
    [k \in AllKeys |->
        IF k = key THEN [value |-> value, ttl |-> ttl, at |-> t]
        ELSE IF k \in DOMAIN before.items /\ k \notin DOMAIN after.items THEN NoEntry
        ELSE written[k]]

\* ---------------------------------------------------------------- actions
\* A direct call of Cache.Set.
Set(key, value, ttl) ==
    /\ \E after \in CacheSet(c, key, value, ttl, now) :
          /\ c' = after
          /\ written' = WrittenAfterSet(c, after, key, value, ttl, now)
    /\ last' = [op |-> "set", key |-> key, value |-> value, found |-> TRUE, at |-> now]
    /\ UNCHANGED now

\* A direct call of Cache.Get.
Get(key) ==
    /\ key \in DOMAIN c.accessCount => c.accessCount[key] < MaxCount
    /\ LET r == CacheGet(c, key, now) IN
          /\ c' = r.cache
          /\ last' = [op |-> "get", key |-> key, value |-> r.value,
                      found |-> r.found, at |-> now]
    /\ UNCHANGED <<now, written>>

\* A direct call of Cache.Delete.
Delete(key) ==
    /\ c' = CacheDelete(c, key)
    /\ written' = [written EXCEPT ![key] = IF @.at = 0 THEN NoEntry ELSE Deleted]
    /\ last' = [op |-> "delete", key |-> key, value |-> "", found |-> FALSE, at |-> now]
    /\ UNCHANGED now

\* The wall clock advances.
Tick ==
    /\ now < MaxTime
    /\ now' = now + 1
    /\ UNCHANGED <<c, last, written, pc, clusterVars, sideVars>>

DoSet ==
    /\ \E key \in Keys, value \in Values, ttl \in TTLs : Set(key, value, ttl)
    /\ UNCHANGED <<pc, clusterVars, sideVars>>

DoGet ==
    /\ \E key \in Keys : Get(key)
    /\ UNCHANGED <<pc, clusterVars, sideVars>>

DoDelete ==
    /\ \E key \in Keys : Delete(key)
    /\ UNCHANGED <<pc, clusterVars, sideVars>>

\* The variables of replication, of the node-list handler and of the
\* health-check goroutine while they are not studied.
NoLate == tasks = <<>> /\ rep = <<>> /\ lister = <<>> /\ health = <<>> /\ guards = <<>>

\* The variables of the ring, the membership table and the files while they
\* are not studied.
NoSide ==
    /\ ring = <<>> /\ rlast = <<>>
    /\ manager = <<>> /\ mlast = <<>>
    /\ disk = <<>> /\ plast = <<>> /\ engine = <<>>
    /\ NoLate

\* The store variables while the store is not studied.
NoStore ==
    /\ c = <<>> /\ last = NoCall /\ pc = 0
    /\ written = [k \in AllKeys |-> NoEntry]

\* The cluster variables while a single store is studied.
NoCluster == caches = <<>> /\ nms = <<>> /\ servers = <<>> /\ resp = NoResp

Init ==
    /\ \E evictionType \in Policies, maxItems \in 1..MaxCap :
          c = NewCache(evictionType, maxItems)
    /\ now = 1
    /\ last = NoCall
    /\ written = [k \in AllKeys |-> NoEntry]
    /\ pc = 0
    /\ NoSide
    /\ NoCluster

Next == DoSet \/ DoGet \/ DoDelete \/ Tick

Spec == Init /\ [][Next]_vars

\* ---------------------------------------------------------------- scripted client
\* A client that runs the LRU scenario, one call after the other, the clock
\* having advanced between two calls: capacity 3, all ttl 0.
LRUScript ==
    << [op |-> "set", key |-> "a", value |-> "A"],
       [op |-> "set", key |-> "b", value |-> "B"],
       [op |-> "set", key |-> "c", value |-> "A"],
       [op |-> "get", key |-> "a", value |-> ""],
       [op |-> "set", key |-> "d", value |-> "B"] >>

ScriptStep ==
    /\ pc < Len(LRUScript)
    /\ last.at < now
    /\ LET call == LRUScript[pc + 1] IN
          IF call.op = "set" THEN Set(call.key, call.value, 0) ELSE Get(call.key)
    /\ pc' = pc + 1
    /\ UNCHANGED <<clusterVars, sideVars>>

ScriptTick ==
    /\ now < ScriptMaxTime
    /\ now' = now + 1
    /\ UNCHANGED <<c, last, written, pc, clusterVars, sideVars>>

ScriptInit ==
    /\ c = NewCache("lru", 3)
    /\ now = 1
    /\ last = NoCall
    /\ written = [k \in AllKeys |-> NoEntry]
    /\ pc = 0
    /\ NoSide
    /\ NoCluster

ScriptNext == ScriptStep \/ ScriptTick

SpecLRUExample == ScriptInit /\ [][ScriptNext]_vars

\* ---------------------------------------------------------------- hash ring
Nodes == {"N1", "N2", "N3"}

\* The address each process listens on (main: http://localhost:<port>).
AddrOf == [N1 |-> "http://localhost:8081", N2 |-> "http://localhost:8082",
           N3 |-> "http://localhost:8083"]

\* The process listening on an address.
Listener(addr) == CHOOSE n \in Nodes : AddrOf[n] = addr

\* Virtual nodes per physical node: NewConsistentHash(10) in NewNodeManager.
Replicas == 10

\* The hashes below are the 32-bit values hashKey computes (the first four
\* bytes of the MD5 digest, little endian) minus 2^31: the shift keeps their
\* order and equality and keeps them within 32-bit signed integers.

\* hashKey(node + string(rune(i))) for i = 0..9.
VNodeDigest ==
    [N1 |-> << -1302788444, -488769561, -11755594, -1923528479, 1420432872,
               1939364684, -1503814184, -1827722803, -1693858051, -1448949139 >>,
     N2 |-> << 2060596730, 1274755700, -1350582074, -1432699821, -1527312417,
               -159708728, 216140132, -2029401447, 214735104, 982938630 >>,
     N3 |-> << 342361167, 23942207, -1863689610, 2063555559, 1253250201,
               -1838727425, -73217485, -1233382723, -477563269, -791127742 >>,
     node210 |-> << 205345554, -620559438, -731415082, 954928745, -462063562,
               1752827071, -1317673112, 189154212, 2040035988, 208369154 >>,
     node21879 |-> << -1834106083, 1642837871, -1083648718, -734627712, 706274530,
               -22416259, 954928745, -114379374, -553254982, -573705974 >>]
    @@ ("http://localhost:8081" :>
            << 58343067, 255782281, -1077624381, 93062956, 1010104601,
               1789983214, -1991000261, -1936287681, 1671341283, 1220078960 >>)
    @@ ("http://localhost:8082" :>
            << 1532651608, -199720101, 400918689, 1365341247, -1234903529,
               197460509, 1006502371, 1112770013, -921269995, -1538209328 >>)

\* hashKey(key) for the keys looked up on a ring.
KeyDigest == [k |-> -340663156, a |-> 964018444, d |-> 299923330]

hashKey(key) == KeyDigest[key]

hashVNode(node, i) == VNodeDigest[node][i + 1]

NewConsistentHash(replicas) ==
    [replicas |-> replicas, hashRing |-> <<>>, nodeMap |-> <<>>, nodes |-> {}]

\* The loop of ConsistentHash.Add: i-th virtual node appended and mapped.
RECURSIVE AddVNodes(_, _, _)
AddVNodes(ch, node, i) ==
    IF i >= ch.replicas THEN ch
    ELSE LET hash == hashVNode(node, i) IN
         AddVNodes([ch EXCEPT !.hashRing = Append(ch.hashRing, hash),
                              !.nodeMap = MapPut(ch.nodeMap, hash, node)],
                   node, i + 1)

\* ConsistentHash.Add.
Add(ch, node) ==
    IF node \in ch.nodes THEN ch
    ELSE LET grown == AddVNodes([ch EXCEPT !.nodes = ch.nodes \cup {node}], node, 0)
         IN  [grown EXCEPT !.hashRing = SortSeq(grown.hashRing, LAMBDA x, y : x < y)]

\* sort.Search(n, f) with f(i) = hashRing[i] >= hash: binary search on [lo, hi).
RECURSIVE Search(_, _, _, _)
Search(hashRing, hash, lo, hi) ==
    IF lo >= hi THEN lo
    ELSE LET h == (lo + hi) \div 2 IN
         IF ~(hashRing[h + 1] >= hash)
         THEN Search(hashRing, hash, h + 1, hi)
         ELSE Search(hashRing, hash, lo, h)

\* nodeMap[hash]: the zero value "" for a hash the map does not hold.
NodeOf(nodeMap, hash) == IF hash \in DOMAIN nodeMap THEN nodeMap[hash] ELSE ""

\* The lookup shared by ConsistentHash.Get and GetNodeForHash.
RingLookup(ch, hash) ==
    LET found == Search(ch.hashRing, hash, 0, Len(ch.hashRing))
        idx == IF found = Len(ch.hashRing) THEN 0 ELSE found
    IN  NodeOf(ch.nodeMap, ch.hashRing[idx + 1])

\* ConsistentHash.Get: "" on an empty ring.
RingGet(ch, key) ==
    IF Len(ch.hashRing) = 0 THEN "" ELSE RingLookup(ch, hashKey(key))

\* The loop of ConsistentHash.Remove over the old hashRing, from index i on:
\* a hash mapped to another node is kept, a hash mapped to node is dropped and
\* its map entry deleted, so a later equal hash finds no map entry and is kept.
RECURSIVE RemoveVNodes(_, _, _, _, _)
RemoveVNodes(hashRing, node, i, newHashRing, nodeMap) ==
    IF i > Len(hashRing) THEN [hashRing |-> newHashRing, nodeMap |-> nodeMap]
    ELSE LET hash == hashRing[i] IN
         IF NodeOf(nodeMap, hash) # node
         THEN RemoveVNodes(hashRing, node, i + 1, Append(newHashRing, hash), nodeMap)
         ELSE RemoveVNodes(hashRing, node, i + 1, newHashRing, MapDelete(nodeMap, hash))

\* ConsistentHash.Remove.
Remove(ch, node) ==
    IF node \notin ch.nodes THEN ch
    ELSE LET r == RemoveVNodes(ch.hashRing, node, 1, <<>>, ch.nodeMap) IN
         [ch EXCEPT !.nodes = ch.nodes \ {node},
                    !.hashRing = r.hashRing,
                    !.nodeMap = r.nodeMap]

\* ConsistentHash.GetHashRing.
GetHashRing(ch) == ch.hashRing

\* ConsistentHash.GetNodeForHash (called on a ring that has entries).
GetNodeForHash(ch, hash) == RingLookup(ch, hash)

\* ---------------------------------------------------------------- NodeManager
NodeStatusUp == "up"
NodeStatusDown == "down"

\* The health-check interval main passes to NewNodeManager, in seconds.
CheckTime == 5

\* A nil *Node.
NilNode == [ID |-> "", Address |-> "", Status |-> "", LastSeen |-> 0]

NewNode(id, addr, t) ==
    [ID |-> id, Address |-> addr, Status |-> NodeStatusUp, LastSeen |-> t]

NewNodeManager(localId, localAddr, checkTime, t) ==
    [nodes |-> MapPut(<<>>, localId, NewNode(localId, localAddr, t)),
     hash |-> Add(NewConsistentHash(Replicas), localId),
     localNode |-> localId,
     nodeCheckTime |-> checkTime]

\* A registration that adds the virtual nodes of a known id once more.
RegisterNodeAddsAgain(nm, id, addrs, t) ==
    LET grown == AddVNodes([nm.hash EXCEPT !.nodes = nm.hash.nodes \cup {id}], id, 0)
    IN  [nm EXCEPT !.nodes = MapPut(nm.nodes, id, NewNode(id, addrs, t)),
                   !.hash = [grown EXCEPT
                                !.hashRing = SortSeq(grown.hashRing, LAMBDA x, y : x < y)]]

\* NodeManager.RegisterNode.
RegisterNode(nm, id, addrs, t) ==
    IF id \in DOMAIN nm.nodes
    THEN [nm EXCEPT !.nodes[id] = NewNode(id, addrs, t)]
    ELSE [nm EXCEPT !.nodes = MapPut(nm.nodes, id, NewNode(id, addrs, t)),
                    !.hash = Add(nm.hash, id)]

RECURSIVE RegisterAll(_, _, _, _)
\* The NodeManager after RegisterNode for every id of a set, each at the
\* address it listens on.
RegisterAll(nm, ids, addrs, t) ==
    IF ids = {} THEN nm
    ELSE LET id == CHOOSE x \in ids : TRUE
         IN  RegisterAll(RegisterNode(nm, id, addrs[id], t), ids \ {id}, addrs, t)

\* NodeManager.GetNodeForKey: nm.nodes[nm.hash.Get(key)], nil when absent.
GetNodeForKey(nm, key) ==
    LET nodeId == RingGet(nm.hash, key) IN
    IF nodeId \in DOMAIN nm.nodes THEN nm.nodes[nodeId] ELSE NilNode

\* NodeManager.GetLocalNode.
GetLocalNode(nm) == nm.nodes[nm.localNode]

\* The health check with a node exactly at the window counted as failed.
checkNodeHealthAtWindow(nm, t) ==
    [nm EXCEPT !.nodes =
        [id \in DOMAIN nm.nodes |->
            IF id = nm.localNode THEN nm.nodes[id]
            ELSE IF t - nm.nodes[id].LastSeen >= nm.nodeCheckTime * 2
                 THEN [nm.nodes[id] EXCEPT !.Status = NodeStatusDown]
                 ELSE nm.nodes[id]]]

\* NodeManager.checkNodeHealth at time t.
checkNodeHealth(nm, t) ==
    [nm EXCEPT !.nodes =
        [id \in DOMAIN nm.nodes |->
            IF id = nm.localNode THEN nm.nodes[id]
            ELSE IF t - nm.nodes[id].LastSeen > nm.nodeCheckTime * 2
                 THEN [nm.nodes[id] EXCEPT !.Status = NodeStatusDown]
                 ELSE nm.nodes[id]]]

\* A heartbeat that enters an unknown id into the table.
handleHeartbeatEnters(nm, id, t) ==
    [nm EXCEPT !.nodes = MapPut(nm.nodes, id, NewNode(id, "", t))]

\* NodeManager.handleHeartbeat for a decoded id at time t.
handleHeartbeat(nm, id, t) ==
    IF id \in DOMAIN nm.nodes
    THEN [nm EXCEPT !.nodes[id].LastSeen = t, !.nodes[id].Status = NodeStatusUp]
    ELSE nm

\* NodeManager.HandleNodeFailure: a known node that is not Down becomes
\* Down, whichever node it is; recoverNodeData only logs.
HandleNodeFailure(nm, nodeId) ==
    IF nodeId \notin DOMAIN nm.nodes \/ nm.nodes[nodeId].Status = NodeStatusDown
    THEN nm
    ELSE [nm EXCEPT !.nodes[nodeId].Status = NodeStatusDown]

\* NodeManager.GetAllNodes: the descriptors of the table, in the order the
\* map iteration gives, which the model leaves out.
GetAllNodes(nm) == {nm.nodes[id] : id \in DOMAIN nm.nodes}

\* A membership test that never finds the string.
containsNothing(slice, str) == FALSE

\* containsString.
containsString(slice, str) == \E i \in 1..Len(slice) : slice[i] = str

\* The first index i (from 0) of hashRing whose hash looks up to nodeId; the
\* zero value 0 when the loop finds none.
PrimaryPos(ch, hashRing, nodeId) ==
    LET hits == {i \in 0..(Len(hashRing) - 1) :
                    GetNodeForHash(ch, hashRing[i + 1]) = nodeId}
    IN  IF hits = {} THEN 0 ELSE CHOOSE i \in hits : \A j \in hits : i <= j

\* The second loop of GetNodesForKey from step i on.
RECURSIVE OwnersWalk(_, _, _, _, _, _, _)
OwnersWalk(ch, hashRing, primaryPos, count, i, added, nodes) ==
    IF ~(i < Len(hashRing) /\ added < count) THEN nodes
    ELSE LET pos == (primaryPos + i) % Len(hashRing)
             nodeId == GetNodeForHash(ch, hashRing[pos + 1])
         IN  IF ~containsString(nodes, nodeId)
             THEN OwnersWalk(ch, hashRing, primaryPos, count, i + 1, added + 1,
                             Append(nodes, nodeId))
             ELSE OwnersWalk(ch, hashRing, primaryPos, count, i + 1, added, nodes)

\* NodeManager.GetNodesForKey.
GetNodesForKey(nm, key, count) ==
    LET primaryNodeId == RingGet(nm.hash, key)
        hashRing == GetHashRing(nm.hash)
    IN  IF count <= 1 \/ Cardinality(DOMAIN nm.nodes) <= 1
        THEN <<primaryNodeId>>
        ELSE OwnersWalk(nm.hash, hashRing, PrimaryPos(nm.hash, hashRing, primaryNodeId),
                        count, 1, 1, <<primaryNodeId>>)

\* ---------------------------------------------------------------- api.Server
\* What main leaves in each api.Server: NewServer, SetupHandlers and
\* SetReplicationManager are called, SetNodeManager is not.
MainServer == [nodeManager |-> FALSE, replicationManager |-> TRUE]

\* A request body that was read to its end.
NoBody == [key |-> "", value |-> "", ttl |-> 0, empty |-> TRUE]

Body(key, value, ttl) == [key |-> key, value |-> value, ttl |-> ttl, empty |-> FALSE]

Request(method, path, key, body) ==
    [method |-> method, path |-> path, key |-> key, body |-> body]

\* What a handler leaves behind: the caches, and the response it wrote.
\* trailer: text written to the body after the relayed response.
Outcome(cs, status, rvalue, trailer) ==
    [caches |-> cs, status |-> status, rvalue |-> rvalue, trailer |-> trailer]

\* Whether the handler at n forwards key: a NodeManager is set and it names
\* another node as the owner.
Forwards(n, key) ==
    /\ servers[n].nodeManager
    /\ GetNodeForKey(nms[n], key) # NilNode
    /\ GetNodeForKey(nms[n], key).ID # GetLocalNode(nms[n]).ID

RECURSIVE Serve(_, _, _, _)

\* A value whose JSON encoding is longer than the buffer a response fills
\* before its headers go out: a response carrying it is sent chunked, every
\* other response of the handlers with a Content-Length.
LargeValue == "large"

\* The request forwardRequest builds: GET and DELETE carry the query, POST
\* carries what is left of the body, which the caller's decoder has read.
ForwardedRequest(r) ==
    IF r.method = "POST"
    THEN Request(r.method, r.path, "", NoBody)
    ELSE Request(r.method, r.path, r.key, NoBody)

\* Server.forwardRequest: the request is sent to node.Address.  When client.Do
\* fails the answer is 500.  Otherwise the owner's headers, status and body
\* are copied, then http.Error writes its text to the body: the write is
\* refused once the copied Content-Length is used up, and is appended to a
\* chunked response.  A chain longer than MaxHops gets no response.
forwardRequest(n, r, node, cs, hops) ==
    IF hops = 0 THEN {Outcome(cs, 0, "", FALSE)}
    ELSE {Outcome(o.caches, o.status, o.rvalue, o.rvalue = LargeValue) :
            o \in Serve(Listener(node.Address), ForwardedRequest(r), cs, hops - 1)}
         \cup {Outcome(cs, 500, "", FALSE)}

\* Server.handleGet.
handleGet(n, r, cs, hops) ==
    IF r.method # "GET" THEN {Outcome(cs, 405, "", FALSE)}
    ELSE IF r.key = "" THEN {Outcome(cs, 400, "", FALSE)}
    ELSE IF Forwards(n, r.key)
    THEN forwardRequest(n, r, GetNodeForKey(nms[n], r.key), cs, hops)
    ELSE LET g == CacheGet(cs[n], r.key, now)
             after == [cs EXCEPT ![n] = g.cache]
         IN  IF ~g.found THEN {Outcome(after, 404, "", FALSE)}
             ELSE {Outcome(after, 200, g.value, FALSE)}

\* Server.handleSet.
handleSet(n, r, cs, hops) ==
    IF r.method # "POST" THEN {Outcome(cs, 405, "", FALSE)}
    ELSE IF r.body.empty THEN {Outcome(cs, 400, "", FALSE)}
    ELSE IF r.body.key = "" THEN {Outcome(cs, 400, "", FALSE)}
    ELSE IF Forwards(n, r.body.key)
    THEN forwardRequest(n, r, GetNodeForKey(nms[n], r.body.key), cs, hops)
    ELSE {Outcome([cs EXCEPT ![n] = after], 201, "", FALSE) :
            after \in CacheSet(cs[n], r.body.key, r.body.value, r.body.ttl, now)}

\* Server.handleDelete.
handleDelete(n, r, cs, hops) ==
    IF r.method # "DELETE" THEN {Outcome(cs, 405, "", FALSE)}
    ELSE IF r.key = "" THEN {Outcome(cs, 400, "", FALSE)}
    ELSE {Outcome([cs EXCEPT ![n] = CacheDelete(cs[n], r.key)], 200, "", FALSE)}

\* The mux of a process: SetupHandlers.
Serve(n, r, cs, hops) ==
    CASE r.path = "/get" -> handleGet(n, r, cs, hops)
      [] r.path = "/set" -> handleSet(n, r, cs, hops)
      [] r.path = "/delete" -> handleDelete(n, r, cs, hops)
      [] OTHER -> {Outcome(cs, 404, "", FALSE)}

\* pkg/client Client.Set, from the response of POST /set on: whether it
\* returns an error.  Status 0 stands for a request that got no response.
ClientSetError(status) ==
    IF status = 0 THEN TRUE
    ELSE status # 200

\* ---------------------------------------------------------------- cluster actions

Response(n, op, key, value, ttl, o) ==
    [node |-> n, op |-> op, key |-> key, value |-> value, ttl |-> ttl,
     status |-> o.status, rvalue |-> o.rvalue, trailer |-> o.trailer]

\* A client sends POST /set to process n.
ClientSet(n, key, value, ttl) ==
    /\ \E o \in Serve(n, Request("POST", "/set", "", Body(key, value, ttl)), caches, MaxHops) :
          /\ caches' = o.caches
          /\ resp' = Response(n, "set", key, value, ttl, o)
          /\ written' = IF o.status \in {200, 201}
                        THEN [written EXCEPT ![key] = [value |-> value, ttl |-> ttl, at |-> now]]
                        ELSE written
    /\ UNCHANGED <<now, nms, servers, storeVars, sideVars>>

\* A client sends GET /get?key= to process n.
ClientGet(n, key) ==
    /\ \A m \in Nodes :
          key \in DOMAIN caches[m].accessCount => caches[m].accessCount[key] < MaxCount
    /\ \E o \in Serve(n, Request("GET", "/get", key, NoBody), caches, MaxHops) :
          /\ caches' = o.caches
          /\ resp' = Response(n, "get", key, "", 0, o)
    /\ UNCHANGED <<now, written, nms, servers, storeVars, sideVars>>

\* A client sends DELETE /delete?key= to process n.
ClientDelete(n, key) ==
    /\ \E o \in Serve(n, Request("DELETE", "/delete", key, NoBody), caches, MaxHops) :
          /\ caches' = o.caches
          /\ resp' = Response(n, "delete", key, "", 0, o)
          /\ written' = IF o.status = 200 THEN [written EXCEPT ![key] = NoEntry] ELSE written
    /\ UNCHANGED <<now, nms, servers, storeVars, sideVars>>

\* POST /nodes/register at process n, announcing process id at its address
\* (registerWithSeedNode, or any other caller of the endpoint), for an id
\* that n sees for the first time.
Register(n, id) ==
    /\ id \notin DOMAIN nms[n].nodes
    /\ nms' = [nms EXCEPT ![n] = RegisterNode(nms[n], id, AddrOf[id], now)]
    /\ UNCHANGED <<now, written, caches, servers, resp, storeVars, sideVars>>

DoClientSet == \E n \in Nodes, key \in ClusterKeys : ClientSet(n, key, "v", 0)
DoClientSetLarge == \E n \in Nodes, key \in ClusterKeys : ClientSet(n, key, LargeValue, 0)
DoClientGet == \E n \in Nodes, key \in ClusterKeys : ClientGet(n, key)
DoClientDelete == \E n \in Nodes, key \in ClusterKeys : ClientDelete(n, key)
DoRegister == \E n \in Nodes, id \in Nodes : Register(n, id)

\* Three processes as main starts them, before any registration.  The cluster
\* is studied at one instant of the clock; expiry is studied on the single store.
ClusterInit ==
    /\ now = 1
    /\ \E evictionType \in Policies :
          caches = [n \in Nodes |-> NewCache(evictionType, ClusterCap)]
    /\ nms = [n \in Nodes |-> NewNodeManager(n, AddrOf[n], CheckTime, 1)]
    /\ servers = [n \in Nodes |-> MainServer]
    /\ resp = NoResp
    /\ written = [k \in AllKeys |-> NoEntry]
    /\ c = NewCache("lru", ClusterCap)
    /\ last = NoCall
    /\ pc = 0
    /\ NoSide

ClusterNext == DoClientSet \/ DoClientGet \/ DoClientDelete \/ DoRegister

SpecCluster == ClusterInit /\ [][ClusterNext]_vars

\* The same three processes with Server.SetNodeManager called on each.
WiredServer == [nodeManager |-> TRUE, replicationManager |-> TRUE]

WiredInit ==
    /\ now = 1
    /\ \E evictionType \in Policies :
          caches = [n \in Nodes |-> NewCache(evictionType, ClusterCap)]
    /\ nms = [n \in Nodes |-> NewNodeManager(n, AddrOf[n], CheckTime, 1)]
    /\ servers = [n \in Nodes |-> WiredServer]
    /\ resp = NoResp
    /\ written = [k \in AllKeys |-> NoEntry]
    /\ c = NewCache("lru", ClusterCap)
    /\ last = NoCall
    /\ pc = 0
    /\ NoSide

SpecWired == WiredInit /\ [][ClusterNext]_vars

\* The three wired processes once each has registered the two others, under
\* client requests with small and large values.
ForwardInit ==
    /\ now = 1
    /\ \E evictionType \in Policies :
          caches = [n \in Nodes |-> NewCache(evictionType, ClusterCap)]
    /\ nms = [n \in Nodes |->
                RegisterAll(NewNodeManager(n, AddrOf[n], CheckTime, 1), Nodes \ {n},
                            AddrOf, 1)]
    /\ servers = [n \in Nodes |-> WiredServer]
    /\ resp = NoResp
    /\ written = [k \in AllKeys |-> NoEntry]
    /\ c = NewCache("lru", ClusterCap)
    /\ last = NoCall
    /\ pc = 0
    /\ NoSide

ForwardNext == DoClientSet \/ DoClientSetLarge \/ DoClientGet \/ DoClientDelete

SpecForward == ForwardInit /\ [][ForwardNext]_vars

\* ---------------------------------------------------------------- ReplicationManager
\* Three processes told apart by their --node-id: two were started with their
\* own address as id, the third with a plain name.
RepNodes == {"http://localhost:8081", "http://localhost:8082", "N3"}

RepAddrOf ==
    ("http://localhost:8081" :> "http://localhost:8081")
    @@ ("http://localhost:8082" :> "http://localhost:8082")
    @@ ("N3" :> "http://localhost:8083")

RepKeys == {"k"}
RepValues == {"v"}

\* The default of the -replicas flag.
ReplicaCount == 2

\* Replication goroutines alive at once.
MaxInFlight == 2

\* NewReplicationManager; cache and nodeManager are the process's own.
NewReplicationManager(replicaCount, localNode) ==
    [replicaCount |-> replicaCount, localNode |-> localNode]

\* The goroutine started for one node of the list: the request it will send.
\* The URL is the node string followed by the path.  ttl is in whole seconds,
\* which int64(ttl.Seconds()) and time.Duration(TTL) * time.Second keep.
Task(from, node, method, path, key, value, ttl) ==
    [from |-> from, node |-> node, method |-> method, path |-> path,
     key |-> key, value |-> value, ttl |-> ttl]

\* The elements of a list other than the local node, in order.
RECURSIVE SkipLocal(_, _)
SkipLocal(nodes, localNode) ==
    IF nodes = <<>> THEN <<>>
    ELSE IF Head(nodes) = localNode THEN SkipLocal(Tail(nodes), localNode)
    ELSE <<Head(nodes)>> \o SkipLocal(Tail(nodes), localNode)

\* ReplicationManager.ReplicateSet: the goroutines it starts, in order.
ReplicateSet(rm, nm, key, value, ttl) ==
    LET nodes == SkipLocal(GetNodesForKey(nm, key, rm.replicaCount + 1), rm.localNode)
    IN  [i \in 1..Len(nodes) |->
            Task(rm.localNode, nodes[i], "POST", "/replicate/set", key, value, ttl)]

\* ReplicationManager.ReplicateDelete: the goroutines it starts, in order.
ReplicateDelete(rm, nm, key) ==
    LET nodes == SkipLocal(GetNodesForKey(nm, key, rm.replicaCount + 1), rm.localNode)
    IN  [i \in 1..Len(nodes) |->
            Task(rm.localNode, nodes[i], "DELETE", "/replication/delete", key, "", 0)]

\* What a replication handler leaves behind: the caches, the status it wrote
\* and the goroutines it started.
Applied(cs, status, spawned) == [caches |-> cs, status |-> status, spawned |-> spawned]

\* A set handler that replicates what it applied.
HandleReplicateSetFansOut(n, r, cs, t) ==
    IF r.method # "POST" THEN {Applied(cs, 405, <<>>)}
    ELSE IF r.body.empty THEN {Applied(cs, 400, <<>>)}
    ELSE {Applied([cs EXCEPT ![n] = after], 200,
                  ReplicateSet(NewReplicationManager(ReplicaCount, n), nms[n],
                               r.body.key, r.body.value, r.body.ttl)) :
            after \in CacheSet(cs[n], r.body.key, r.body.value, r.body.ttl, t)}

\* ReplicationManager.HandleReplicateSet at process n.
HandleReplicateSet(n, r, cs, t) ==
    IF r.method # "POST" THEN {Applied(cs, 405, <<>>)}
    ELSE IF r.body.empty THEN {Applied(cs, 400, <<>>)}
    ELSE {Applied([cs EXCEPT ![n] = after], 200, <<>>) :
            after \in CacheSet(cs[n], r.body.key, r.body.value, r.body.ttl, t)}

\* ReplicationManager.HandleReplicateDelete at process n.
HandleReplicateDelete(n, r, cs, t) ==
    IF r.method # "DELETE" THEN {Applied(cs, 405, <<>>)}
    ELSE IF r.key = "" THEN {Applied(cs, 400, <<>>)}
    ELSE {Applied([cs EXCEPT ![n] = CacheDelete(cs[n], r.key)], 200, <<>>)}

\* The patterns ReplicationManager.SetupHTTPHandlers mounts on the mux of
\* process n.  No pattern of the mux ends in a slash, so any other path under
\* /replicate or /replication is answered 404 by the mux itself.
ReplicationMux(n, r, cs, t) ==
    CASE r.path = "/replicate/set" -> HandleReplicateSet(n, r, cs, t)
      [] r.path = "/replicate/delete" -> HandleReplicateDelete(n, r, cs, t)
      [] OTHER -> {Applied(cs, 404, <<>>)}

\* The request a goroutine builds from its task.
RequestOf(task) ==
    IF task.method = "POST"
    THEN Request("POST", task.path, "", Body(task.key, task.value, task.ttl))
    ELSE Request(task.method, task.path, task.key, NoBody)

\* The processes an http client reaches at the URL base it was given: the
\* one listening there, none when the base is not an address.
Dial(base) == {m \in RepNodes : RepAddrOf[m] = base}

RECURSIVE SeqToBag(_)
SeqToBag(seq) ==
    IF seq = <<>> THEN EmptyBag ELSE SetToBag({Head(seq)}) (+) SeqToBag(Tail(seq))

NoRepCall ==
    [op |-> "none", from |-> "", key |-> NoKey, owners |-> <<>>, spawned |-> <<>>,
     task |-> <<>>, reached |-> "", status |-> 0, refused |-> FALSE]

RepRest == <<now, storeVars, written, nms, servers, resp, ring, rlast, manager, mlast,
             disk, plast, engine, lister, health, guards>>

\* Process n calls ReplicateSet(key, value, 0) on its ReplicationManager.
CallReplicateSet(n, key, value) ==
    LET rm == NewReplicationManager(ReplicaCount, n)
        spawned == ReplicateSet(rm, nms[n], key, value, 0)
    IN  /\ BagCardinality(tasks) + Len(spawned) <= MaxInFlight
        /\ tasks' = tasks (+) SeqToBag(spawned)
        /\ rep' = [NoRepCall EXCEPT !.op = "replicate-set", !.from = n, !.key = key,
                       !.owners = GetNodesForKey(nms[n], key, rm.replicaCount + 1),
                       !.spawned = spawned]
        /\ UNCHANGED <<caches, RepRest>>

\* Process n calls ReplicateDelete(key) on its ReplicationManager.
CallReplicateDelete(n, key) ==
    LET rm == NewReplicationManager(ReplicaCount, n)
        spawned == ReplicateDelete(rm, nms[n], key)
    IN  /\ BagCardinality(tasks) + Len(spawned) <= MaxInFlight
        /\ tasks' = tasks (+) SeqToBag(spawned)
        /\ rep' = [NoRepCall EXCEPT !.op = "replicate-delete", !.from = n, !.key = key,
                       !.owners = GetNodesForKey(nms[n], key, rm.replicaCount + 1),
                       !.spawned = spawned]
        /\ UNCHANGED <<caches, RepRest>>

\* A replication goroutine runs: its request fails in the client (the URL
\* names no address, or the process listening there refuses it), or is served
\* by the mux of the process listening at its base.
RunTask(task) ==
    /\ BagIn(task, tasks)
    /\ \/ /\ caches' = caches
          /\ tasks' = tasks (-) SetToBag({task})
          /\ rep' = [NoRepCall EXCEPT !.op = "send", !.task = task,
                         !.refused = (Dial(task.node) # {})]
       \/ \E m \in Dial(task.node) : \E o \in ReplicationMux(m, RequestOf(task), caches, now) :
             /\ caches' = o.caches
             /\ tasks' = (tasks (-) SetToBag({task})) (+) SeqToBag(o.spawned)
             /\ rep' = [NoRepCall EXCEPT !.op = "send", !.task = task, !.reached = m,
                            !.status = o.status]
    /\ UNCHANGED RepRest

\* A request of any HTTP client arrives at a replication entry point of
\* process m.
Arrive(m, method, path, key, value) ==
    LET task == Task("", RepAddrOf[m], method, path, key, value, 0) IN
    /\ \E o \in ReplicationMux(m, RequestOf(task), caches, now) :
          /\ caches' = o.caches
          /\ tasks' = tasks (+) SeqToBag(o.spawned)
          /\ rep' = [NoRepCall EXCEPT !.op = "arrive", !.task = task, !.reached = m,
                         !.status = o.status]
    /\ UNCHANGED RepRest

DoArrive ==
    \E m \in RepNodes, key \in RepKeys, value \in RepValues :
        \/ Arrive(m, "POST", "/replicate/set", key, value)
        \/ Arrive(m, "DELETE", "/replicate/delete", key, "")

DoReplicateSet == \E n \in RepNodes, key \in RepKeys, value \in RepValues : CallReplicateSet(n, key, value)
DoReplicateDelete == \E n \in RepNodes, key \in RepKeys : CallReplicateDelete(n, key)
DoRunTask == \E task \in BagToSet(tasks) : RunTask(task)

\* The three processes once each has registered the two others.
RepInit ==
    /\ now = 1
    /\ caches = [n \in RepNodes |-> NewCache("lru", ClusterCap)]
    /\ nms = [n \in RepNodes |->
                RegisterAll(NewNodeManager(n, RepAddrOf[n], CheckTime, 1), RepNodes \ {n},
                            RepAddrOf, 1)]
    /\ servers = <<>> /\ resp = NoResp
    /\ tasks = EmptyBag
    /\ rep = NoRepCall
    /\ NoStore
    /\ ring = <<>> /\ rlast = <<>> /\ manager = <<>> /\ mlast = <<>>
    /\ disk = <<>> /\ plast = <<>> /\ engine = <<>>
    /\ lister = <<>> /\ health = <<>> /\ guards = <<>>

RepNext == DoReplicateSet \/ DoReplicateDelete \/ DoRunTask \/ DoArrive

SpecReplication == RepInit /\ [][RepNext]_vars

\* ---------------------------------------------------------------- a ring on its own
\* Node ids added to and removed from the ring.  hashKey("node210" + rune(3))
\* and hashKey("node21879" + rune(6)) are the same 32-bit value.
RingNodes == {"N1", "node210", "node21879"}

RingKeys == {"k", "a", "d"}

\* Remove can leave a hash behind, so the ring can grow with every Add: a node
\* is added only while the ring stays within this many entries.
MaxRing == 31

NoRingCall ==
    [op |-> "none", node |-> "", key |-> NoKey, result |-> "",
     before |-> NewConsistentHash(Replicas)]

\* A call of ConsistentHash.Add.
RingAdd(node) ==
    /\ node \notin ring.nodes => Len(ring.hashRing) + Replicas <= MaxRing
    /\ ring' = Add(ring, node)
    /\ rlast' = [op |-> "add", node |-> node, key |-> NoKey, result |-> "",
                 before |-> ring]

\* A call of ConsistentHash.Remove.
RingRemove(node) ==
    /\ ring' = Remove(ring, node)
    /\ rlast' = [op |-> "remove", node |-> node, key |-> NoKey, result |-> "",
                 before |-> ring]

\* A call of ConsistentHash.Get.
RingPrimary(key) ==
    /\ rlast' = [op |-> "get", node |-> "", key |-> key,
                 result |-> RingGet(ring, key), before |-> ring]
    /\ UNCHANGED ring

RingRest ==
    <<now, storeVars, written, clusterVars, manager, mlast, disk, plast, engine, lateVars>>

DoRingAdd == (\E node \in RingNodes : RingAdd(node)) /\ UNCHANGED RingRest
DoRingRemove == (\E node \in RingNodes : RingRemove(node)) /\ UNCHANGED RingRest
DoRingPrimary == (\E key \in RingKeys : RingPrimary(key)) /\ UNCHANGED RingRest

RingInit ==
    /\ ring = NewConsistentHash(Replicas)
    /\ rlast = NoRingCall
    /\ now = 1
    /\ NoStore /\ NoCluster
    /\ manager = <<>> /\ mlast = <<>> /\ disk = <<>> /\ plast = <<>> /\ engine = <<>>
    /\ NoLate

RingNext == DoRingAdd \/ DoRingRemove \/ DoRingPrimary

SpecRing == RingInit /\ [][RingNext]_vars

\* ---------------------------------------------------------------- a NodeManager on its own
MemCheckTime == 1     \* the check interval (seconds) the NodeManager is built with
MemMaxTime == 4       \* the clock bound while the membership table is studied
MaxOwners == 4        \* the largest count asked of GetNodesForKey

MemberKeys == {"k", "a", "d"}

\* An address a node registers with after it moved.
MovedAddr == "http://localhost:9090"

NoMemberCall ==
    [op |-> "none", id |-> "", addr |-> "", key |-> NoKey, n |-> 0, owners |-> <<>>,
     at |-> 0, repeat |-> FALSE]

\* handleRegister with a body naming id and address.
MemberRegister(id, addr) ==
    /\ manager' = RegisterNode(manager, id, addr, now)
    /\ mlast' = [NoMemberCall EXCEPT !.op = "register", !.id = id, !.addr = addr,
                     !.at = now,
                     !.repeat = (mlast.op = "register" /\ mlast.id = id
                                    /\ mlast.addr = addr)]

\* handleHeartbeat with a body naming id.
MemberHeartbeat(id) ==
    /\ manager' = handleHeartbeat(manager, id, now)
    /\ mlast' = [NoMemberCall EXCEPT !.op = "heartbeat", !.id = id, !.at = now]

\* A tick of the health-check ticker.
MemberCheck ==
    /\ manager' = checkNodeHealth(manager, now)
    /\ mlast' = [NoMemberCall EXCEPT !.op = "check", !.at = now]

\* A call of GetNodesForKey.
MemberOwners(key, n) ==
    /\ mlast' = [NoMemberCall EXCEPT !.op = "owners", !.key = key, !.n = n, !.at = now,
                     !.owners = GetNodesForKey(manager, key, n)]
    /\ UNCHANGED manager

MemberRest ==
    <<storeVars, written, clusterVars, ring, rlast, disk, plast, engine, lateVars>>

DoMemberRegister ==
    /\ \E id \in Nodes : \E addr \in {AddrOf[id], MovedAddr} : MemberRegister(id, addr)
    /\ UNCHANGED <<now, MemberRest>>

DoMemberHeartbeat ==
    /\ \E id \in Nodes : MemberHeartbeat(id)
    /\ UNCHANGED <<now, MemberRest>>

DoMemberCheck == MemberCheck /\ UNCHANGED <<now, MemberRest>>

DoMemberOwners ==
    /\ \E key \in MemberKeys, n \in 0..MaxOwners : MemberOwners(key, n)
    /\ UNCHANGED <<now, MemberRest>>

MemberTick ==
    /\ now < MemMaxTime
    /\ now' = now + 1
    /\ UNCHANGED <<manager, mlast, MemberRest>>

MemberInit ==
    /\ now = 1
    /\ manager = NewNodeManager("N1", AddrOf["N1"], MemCheckTime, 1)
    /\ mlast = NoMemberCall
    /\ NoStore /\ NoCluster
    /\ ring = <<>> /\ rlast = <<>> /\ disk = <<>> /\ plast = <<>> /\ engine = <<>>
    /\ NoLate

\* The membership table under registrations, heartbeats and health checks as
\* the clock advances.
MemberNext == DoMemberRegister \/ DoMemberHeartbeat \/ DoMemberCheck \/ MemberTick

SpecMember == MemberInit /\ [][MemberNext]_vars

\* A call of HandleNodeFailure.
MemberFailure(id) ==
    /\ manager' = HandleNodeFailure(manager, id)
    /\ mlast' = [NoMemberCall EXCEPT !.op = "failure", !.id = id, !.at = now]

DoMemberFailure ==
    /\ \E id \in Nodes : MemberFailure(id)
    /\ UNCHANGED <<now, MemberRest>>

\* The membership table under every public operation of the manager as the
\* clock advances.
FailureNext ==
    DoMemberRegister \/ DoMemberHeartbeat \/ DoMemberCheck \/ DoMemberFailure \/ MemberTick

SpecFailure == MemberInit /\ [][FailureNext]_vars

\* handleListNodes between its steps.  size: the length of the response
\* slice it made; snapshot: what GetAllNodes returned; filled: the entries of
\* the slice it has assigned.
NoListing == [pc |-> "idle", size |-> 0, snapshot |-> {}, filled |-> 0]

ListRest ==
    <<now, manager, mlast, storeVars, written, clusterVars, ring, rlast, disk, plast,
      engine, tasks, rep, health, guards>>

\* GET /nodes/list, first step: response := make([]nodeInfo, len(nm.nodes)),
\* read without the lock.  One request is followed at a time: the next
\* starts when the handler of the last has returned.
ListAlloc ==
    /\ lister.pc # "allocated"
    /\ lister' = [NoListing EXCEPT !.pc = "allocated",
                                   !.size = Cardinality(DOMAIN manager.nodes)]
    /\ UNCHANGED ListRest

\* GET /nodes/list, second step: nodes := nm.GetAllNodes() under the read
\* lock, then response[i] is assigned for each i of the snapshot.  An index
\* beyond the slice panics and the request gets no response; otherwise the
\* slice is encoded with the entries left unassigned at their zero value.
ListFill ==
    /\ lister.pc = "allocated"
    /\ LET nodes == GetAllNodes(manager) IN
       lister' = [lister EXCEPT
                     !.snapshot = {node.ID : node \in nodes},
                     !.pc = IF Cardinality(nodes) > lister.size THEN "panicked" ELSE "responded",
                     !.filled = IF Cardinality(nodes) > lister.size
                                THEN lister.size ELSE Cardinality(nodes)]
    /\ UNCHANGED ListRest

ListInit ==
    /\ now = 1
    /\ manager = NewNodeManager("N1", AddrOf["N1"], MemCheckTime, 1)
    /\ mlast = NoMemberCall
    /\ lister = NoListing
    /\ NoStore /\ NoCluster
    /\ ring = <<>> /\ rlast = <<>> /\ disk = <<>> /\ plast = <<>> /\ engine = <<>>
    /\ tasks = <<>> /\ rep = <<>> /\ health = <<>> /\ guards = <<>>

\* Node-list requests served while registrations and heartbeats arrive.
ListNext == DoMemberRegister \/ DoMemberHeartbeat \/ ListAlloc \/ ListFill

SpecList == ListInit /\ [][ListNext]_vars

\* The membership table under registrations, heartbeats and owner lookups at
\* one instant.
OwnersNext == DoMemberRegister \/ DoMemberHeartbeat \/ DoMemberOwners

SpecOwners == MemberInit /\ [][OwnersNext]_vars

\* ---------------------------------------------------------------- persistence
\* Where the files are studied a unit of the clock is 64 ns, so that the
\* rounding of a decoded timestamp is visible: UnixNano values of this era lie
\* between 2^60 and 2^61, where a float64 holds only the multiples of 256 ns,
\* that is of FloatStep clock units.  A clock value v stands for the instant
\* Epoch + 64 ns * v, Epoch a multiple of 512 ns.
FloatStep == 4

\* No file under a path.
NoFile == [data |-> <<>>, complete |-> FALSE, exists |-> FALSE]

\* A file holding the whole encoding of data.
FileOf(data) == [data |-> data, complete |-> TRUE, exists |-> TRUE]

\* A file that was created and holds less than a whole encoding.
PartFile == [data |-> <<>>, complete |-> FALSE, exists |-> TRUE]

\* The float64 nearest to the integer x (ties to the even mantissa): what the
\* decoder makes of a JSON number read into an interface{}, converted back
\* with int64().  0 is held exactly.
ToFloat64(x) ==
    LET r == x % FloatStep
        down == x - r
        up == down + FloatStep
    IN  IF r = 0 THEN x
        ELSE IF 2 * r < FloatStep THEN down
        ELSE IF 2 * r > FloatStep THEN up
        ELSE IF down % (2 * FloatStep) = 0 THEN down ELSE up

\* The test by which saveToDisk skips an item.
SkippedBySave(item, t) == item.Expiration > 0 /\ item.Expiration < t

\* The data map saveToDisk builds from the cache at time t; the encoder writes
\* its int64 fields digit for digit.
SnapshotData(cache, t) ==
    [k \in {x \in DOMAIN cache.items : ~SkippedBySave(cache.items[x], t)} |->
        [value |-> cache.items[k].Value,
         expiration |-> cache.items[k].Expiration,
         lastAccess |-> cache.items[k].LastAccess]]

\* What the decoder returns for a file: every number as a float64.
Decode(file) ==
    [k \in DOMAIN file.data |->
        [value |-> file.data[k].value,
         expiration |-> ToFloat64(file.data[k].expiration),
         lastAccess |-> ToFloat64(file.data[k].lastAccess)]]

\* The test by which loadFromDisk skips a decoded item.
SkippedByLoad(itemData, t) == itemData.expiration > 0 /\ itemData.expiration < t

\* loadFromDisk at time t: nothing for a missing file, an empty file or one
\* that does not decode, else every decoded item that is not skipped is put
\* into the cache with access count 1.
loadFromDisk(cache, file, t) ==
    IF ~file.exists \/ ~file.complete THEN cache
    ELSE LET data == Decode(file)
             kept == {k \in DOMAIN data : ~SkippedByLoad(data[k], t)}
         IN  [cache EXCEPT
                !.items = [k \in (DOMAIN cache.items) \cup kept |->
                              IF k \in kept
                              THEN [Value |-> data[k].value,
                                    Expiration |-> data[k].expiration,
                                    LastAccess |-> data[k].lastAccess]
                              ELSE cache.items[k]],
                !.accessCount = [k \in (DOMAIN cache.accessCount) \cup kept |->
                              IF k \in kept THEN 1 ELSE cache.accessCount[k]]]

\* ---------------------------------------------------------------- snapshot and restore
SnapStart == 4        \* the clock value at which the first process starts
SnapMaxTime == 8      \* the clock bound while snapshots are studied
SnapCap == 3          \* the capacity the store is constructed with

SnapKeys == {"a", "b"}
SnapValue == [a |-> "A", b |-> "B"]
SnapTTLs == {0, FloatStep}

\* No snapshot taken yet.
NoSource == [store |-> <<>>, at |-> 0]

NoDiskCall == [op |-> "none", at |-> 0, result |-> <<>>]

\* A client sets a key of the running process.
SnapSet(key, ttl) ==
    /\ \E after \in CacheSet(c, key, SnapValue[key], ttl, now) :
          /\ c' = after
          /\ written' = WrittenAfterSet(c, after, key, SnapValue[key], ttl, now)
    /\ last' = [op |-> "set", key |-> key, value |-> SnapValue[key], found |-> TRUE,
                at |-> now]

SnapRest == <<pc, clusterVars, ring, rlast, manager, mlast, engine, lateVars>>

DoSnapSet ==
    /\ \E key \in SnapKeys, ttl \in SnapTTLs : SnapSet(key, ttl)
    /\ UNCHANGED <<now, disk, plast, SnapRest>>

\* saveToDisk runs to its end without an error: the data of this instant is
\* encoded into <path>.tmp and renamed to the target.
SnapSave ==
    /\ disk' = [target |-> FileOf(SnapshotData(c, now)), tmp |-> NoFile,
                source |-> [store |-> c, at |-> now]]
    /\ plast' = [op |-> "save", at |-> now, result |-> <<>>]
    /\ UNCHANGED <<c, last, written, now, SnapRest>>

\* The process ends and a new one starts on the same path: main builds an
\* empty cache and Start calls loadFromDisk.
SnapRestart ==
    /\ c' = loadFromDisk(NewCache(c.evictionType, c.maxItems), disk.target, now)
    /\ plast' = [op |-> "load", at |-> now, result |-> c']
    /\ last' = NoCall
    /\ written' = [k \in AllKeys |-> NoEntry]
    /\ UNCHANGED <<disk, now, SnapRest>>

SnapTick ==
    /\ now < SnapMaxTime
    /\ now' = now + 1
    /\ UNCHANGED <<c, last, written, disk, plast, SnapRest>>

SnapInit ==
    /\ now = SnapStart
    /\ c = NewCache("lru", SnapCap)
    /\ last = NoCall /\ pc = 0
    /\ written = [k \in AllKeys |-> NoEntry]
    /\ disk = [target |-> NoFile, tmp |-> NoFile, source |-> NoSource]
    /\ plast = NoDiskCall
    /\ NoCluster
    /\ ring = <<>> /\ rlast = <<>> /\ manager = <<>> /\ mlast = <<>> /\ engine = <<>>
    /\ NoLate

SnapNext == DoSnapSet \/ SnapSave \/ SnapRestart \/ SnapTick

SpecSnapshot == SnapInit /\ [][SnapNext]_vars

\* ---------------------------------------------------------------- a store over several runs
\* One store under every operation of the cache, saved to its file and
\* restored from it by later processes.  Each process is started with the
\* --max-items it is given (main.go:26, 47); the file name depends on
\* --data-dir and --node-id only (main.go:74).
ReloadCap == 2        \* the largest --max-items a process is started with
ReloadMaxTime == 6    \* the clock bound while the runs are studied

ReloadRest ==
    <<last, written, pc, clusterVars, ring, rlast, manager, mlast, engine, lateVars>>

\* The record of a call: result holds the keys that had an access count
\* when the call began.
ReloadCall(op) == [op |-> op, at |-> now, result |-> DOMAIN c.accessCount]

ReloadSet ==
    /\ \E key \in SnapKeys, ttl \in {0, MaxTTL} :
          \E after \in CacheSet(c, key, SnapValue[key], ttl, now) : c' = after
    /\ plast' = ReloadCall("set")
    /\ UNCHANGED <<now, disk, ReloadRest>>

ReloadGet ==
    /\ \E key \in SnapKeys :
          /\ key \in DOMAIN c.accessCount => c.accessCount[key] < MaxCount
          /\ c' = CacheGet(c, key, now).cache
    /\ plast' = ReloadCall("get")
    /\ UNCHANGED <<now, disk, ReloadRest>>

ReloadDelete ==
    /\ \E key \in SnapKeys : c' = CacheDelete(c, key)
    /\ plast' = ReloadCall("delete")
    /\ UNCHANGED <<now, disk, ReloadRest>>

\* saveToDisk runs to its end without an error.
ReloadSave ==
    /\ disk' = [target |-> FileOf(SnapshotData(c, now)), tmp |-> NoFile, source |-> NoSource]
    /\ plast' = ReloadCall("save")
    /\ UNCHANGED <<c, now, ReloadRest>>

\* The process ends and a new one starts on the same path with its own
\* --max-items: main builds an empty cache and Start calls loadFromDisk.
ReloadRestart ==
    /\ \E maxItems \in 1..ReloadCap :
          c' = loadFromDisk(NewCache(c.evictionType, maxItems), disk.target, now)
    /\ plast' = ReloadCall("load")
    /\ UNCHANGED <<now, disk, ReloadRest>>

ReloadTick ==
    /\ now < ReloadMaxTime
    /\ now' = now + 1
    /\ UNCHANGED <<c, disk, plast, ReloadRest>>

ReloadInit ==
    /\ now = SnapStart
    /\ \E evictionType \in Policies, maxItems \in 1..ReloadCap :
          c = NewCache(evictionType, maxItems)
    /\ last = NoCall /\ pc = 0
    /\ written = [k \in AllKeys |-> NoEntry]
    /\ disk = [target |-> NoFile, tmp |-> NoFile, source |-> NoSource]
    /\ plast = [op |-> "none", at |-> 0, result |-> {}]
    /\ NoCluster
    /\ ring = <<>> /\ rlast = <<>> /\ manager = <<>> /\ mlast = <<>> /\ engine = <<>>
    /\ NoLate

ReloadNext ==
    ReloadSet \/ ReloadGet \/ ReloadDelete \/ ReloadSave \/ ReloadRestart \/ ReloadTick

SpecReload == ReloadInit /\ [][ReloadNext]_vars

\* ---------------------------------------------------------------- the persistence process
PersistMaxTime == 6   \* the clock bound while the persistence process is studied

PersistKeys == {"a"}
PersistValues == {"A", "B"}

\* The PersistenceManager after Start: the loop goroutine waits in its select,
\* the stopping channel is open, no final save has completed.
Started ==
    [pc |-> "select", data |-> <<>>, final |-> FALSE, stopping |-> FALSE,
     alive |-> TRUE, finalSaves |-> 0]

\* os.Create of <path>.tmp on the target itself.
CreateInPlace(d) == [d EXCEPT !.target = PartFile]

\* os.Create(tempFilePath): the file exists and is empty.
CreateTemp(d) == [d EXCEPT !.tmp = PartFile]

\* An Encode that writes under the target's name.
EncodeInPlace(d, data) == [d EXCEPT !.target = FileOf(data)]

\* encoder.Encode(data) into the open temp file.
EncodeTemp(d, data) == [d EXCEPT !.tmp = FileOf(data)]

\* os.Rename(tempFilePath, pm.filePath).
RenameTemp(d) == [d EXCEPT !.target = d.tmp, !.tmp = NoFile]

\* saveToDisk returns to the loop: the loop ends after the save of the
\* stopping case and waits in its select again after the save of a tick.
Returned(e, ok) ==
    [e EXCEPT !.pc = IF e.final THEN "exited" ELSE "select",
              !.data = <<>>,
              !.final = FALSE,
              !.finalSaves = IF e.final /\ ok THEN 1 ELSE @]

PersistRest ==
    <<last, written, pc, clusterVars, ring, rlast, manager, mlast, lateVars>>

\* The loop takes a case of its select and saveToDisk copies the live items
\* under the cache's read lock.  The ticker case is ready at some instants,
\* the stopping case once the channel is closed.
SaveCollect ==
    /\ engine.alive /\ engine.pc = "select"
    /\ \E final \in {FALSE, engine.stopping} :
          engine' = [engine EXCEPT !.pc = "collected", !.final = final,
                                   !.data = SnapshotData(c, now)]
    /\ UNCHANGED <<c, now, disk, plast, PersistRest>>

\* os.Create of the temp file succeeds or fails.
SaveCreate ==
    /\ engine.alive /\ engine.pc = "collected"
    /\ \/ /\ disk' = CreateTemp(disk)
          /\ engine' = [engine EXCEPT !.pc = "created"]
          /\ UNCHANGED plast
       \/ /\ engine' = Returned(engine, FALSE)
          /\ plast' = [op |-> "save", at |-> now, result |-> "create failed"]
          /\ UNCHANGED disk
    /\ UNCHANGED <<c, now, PersistRest>>

\* Encode writes the whole data or fails part way.
SaveEncode ==
    /\ engine.alive /\ engine.pc = "created"
    /\ \/ /\ disk' = EncodeTemp(disk, engine.data)
          /\ engine' = [engine EXCEPT !.pc = "encoded"]
          /\ UNCHANGED plast
       \/ /\ engine' = Returned(engine, FALSE)
          /\ plast' = [op |-> "save", at |-> now, result |-> "encode failed"]
          /\ UNCHANGED disk
    /\ UNCHANGED <<c, now, PersistRest>>

\* file.Sync succeeds or fails.
SaveSync ==
    /\ engine.alive /\ engine.pc = "encoded"
    /\ \/ /\ engine' = [engine EXCEPT !.pc = "synced"]
          /\ UNCHANGED plast
       \/ /\ engine' = Returned(engine, FALSE)
          /\ plast' = [op |-> "save", at |-> now, result |-> "sync failed"]
    /\ UNCHANGED <<c, now, disk, PersistRest>>

\* os.Rename installs the temp file or fails; saveToDisk returns.
SaveRename ==
    /\ engine.alive /\ engine.pc = "synced"
    /\ \/ /\ disk' = RenameTemp(disk)
          /\ engine' = Returned(engine, TRUE)
          /\ plast' = [op |-> "save", at |-> now, result |-> "saved"]
       \/ /\ engine' = Returned(engine, FALSE)
          /\ plast' = [op |-> "save", at |-> now, result |-> "rename failed"]
          /\ UNCHANGED disk
    /\ UNCHANGED <<c, now, PersistRest>>

\* PersistenceManager.Stop: it takes pm.mu, which saveToDisk holds from its
\* first line to its return, closes the channel and returns; closing a closed
\* channel panics and ends the process.
Stop ==
    /\ engine.alive /\ engine.pc \in {"select", "exited"}
    /\ IF engine.stopping
       THEN /\ engine' = [engine EXCEPT !.alive = FALSE]
            /\ plast' = [op |-> "stop", at |-> now, result |-> "panic"]
       ELSE /\ engine' = [engine EXCEPT !.stopping = TRUE]
            /\ plast' = [op |-> "stop", at |-> now, result |-> "returned"]
    /\ UNCHANGED <<c, now, disk, PersistRest>>

\* main receives SIGINT or SIGTERM, logs and returns: the process ends with
\* its goroutines wherever they are.
Shutdown ==
    /\ engine.alive
    /\ engine' = [engine EXCEPT !.alive = FALSE]
    /\ plast' = [op |-> "shutdown", at |-> now, result |-> "returned"]
    /\ UNCHANGED <<c, now, disk, PersistRest>>

\* A new process starts on the same path: main builds an empty cache and Start
\* calls loadFromDisk and starts the loop.
Restart ==
    /\ ~engine.alive
    /\ c' = loadFromDisk(NewCache(c.evictionType, c.maxItems), disk.target, now)
    /\ engine' = Started
    /\ plast' = [op |-> "load", at |-> now, result |-> "loaded"]
    /\ UNCHANGED <<now, disk, PersistRest>>

\* A client sets a key of the running process.
PersistSet ==
    /\ engine.alive
    /\ \E key \in PersistKeys, value \in PersistValues :
          \E after \in CacheSet(c, key, value, FloatStep, now) : c' = after
    /\ UNCHANGED <<now, disk, plast, engine, PersistRest>>

PersistTick ==
    /\ now < PersistMaxTime
    /\ now' = now + 1
    /\ UNCHANGED <<c, disk, plast, engine, PersistRest>>

PersistInit ==
    /\ now = SnapStart
    /\ c = NewCache("lru", SnapCap)
    /\ last = NoCall /\ pc = 0
    /\ written = [k \in AllKeys |-> NoEntry]
    /\ disk = [target |-> NoFile, tmp |-> NoFile, source |-> NoSource]
    /\ plast = NoDiskCall
    /\ engine = Started
    /\ NoCluster
    /\ ring = <<>> /\ rlast = <<>> /\ manager = <<>> /\ mlast = <<>>
    /\ NoLate

PersistNext ==
    \/ SaveCollect \/ SaveCreate \/ SaveEncode \/ SaveSync \/ SaveRename
    \/ Stop \/ Shutdown \/ Restart \/ PersistSet \/ PersistTick

SpecPersist == PersistInit /\ [][PersistNext]_vars

\* While no process runs, the file under pm.filePath is damaged (cut short,
\* overwritten with something that is not JSON): Decode will fail on it.
Damage ==
    /\ ~engine.alive /\ disk.target.exists /\ disk.target.complete
    /\ disk' = [disk EXCEPT !.target = PartFile]
    /\ plast' = [op |-> "damage", at |-> now, result |-> "damaged"]
    /\ UNCHANGED <<c, now, engine, PersistRest>>

RecoverNext == PersistNext \/ Damage

SpecRecover == PersistInit /\ [][RecoverNext]_vars

\* ---------------------------------------------------------------- the background goroutines
\* The goroutine of StartHealthCheck: it waits on ticker.C, runs
\* checkNodeHealth for each value it receives, and waits again.  The channel
\* of a Ticker is never closed, and the loop has no other case.
HealthStarted == [pc |-> "waiting"]

LoopsRest ==
    <<c, now, last, written, pc, clusterVars, ring, rlast, mlast, disk, plast, engine,
      tasks, rep, lister, guards>>

\* A value arrives on ticker.C.
HealthTick ==
    /\ engine.alive /\ health.pc = "waiting"
    /\ health' = [health EXCEPT !.pc = "checking"]
    /\ UNCHANGED <<manager, LoopsRest>>

\* The body of the loop: checkNodeHealth, then back to the range.
HealthRun ==
    /\ engine.alive /\ health.pc = "checking"
    /\ manager' = checkNodeHealth(manager, now)
    /\ health' = [health EXCEPT !.pc = "waiting"]
    /\ UNCHANGED LoopsRest

\* Stop called once on a started PersistenceManager.
StopOnce == ~engine.stopping /\ Stop

\* The stopping case of the select is taken.
FinalCollect == SaveCollect /\ engine'.final

\* A process after pm.Start() and nm.StartHealthCheck().
LoopsInit ==
    /\ now = SnapStart
    /\ c = NewCache("lru", SnapCap)
    /\ last = NoCall /\ pc = 0
    /\ written = [k \in AllKeys |-> NoEntry]
    /\ disk = [target |-> NoFile, tmp |-> NoFile, source |-> NoSource]
    /\ plast = NoDiskCall
    /\ engine = Started
    /\ manager = NewNodeManager("N1", AddrOf["N1"], CheckTime, SnapStart)
    /\ health = HealthStarted
    /\ NoCluster
    /\ ring = <<>> /\ rlast = <<>> /\ mlast = <<>>
    /\ tasks = <<>> /\ rep = <<>> /\ lister = <<>> /\ guards = <<>>

LoopsNext ==
    \/ SaveCollect \/ SaveCreate \/ SaveEncode \/ SaveSync \/ SaveRename
    \/ StopOnce \/ PersistSet \/ HealthTick \/ HealthRun

\* The two loops of a running process.  A goroutine that can take its next
\* step takes it; a select with a closed channel among its cases picks that
\* case sooner or later, whatever the ticker does; the ticker of the health
\* check keeps firing.
SpecLoops ==
    /\ LoopsInit /\ [][LoopsNext]_vars
    /\ SF_vars(FinalCollect)
    /\ WF_vars(SaveCreate) /\ WF_vars(SaveEncode) /\ WF_vars(SaveSync) /\ WF_vars(SaveRename)
    /\ WF_vars(HealthTick) /\ WF_vars(HealthRun)

\* ---------------------------------------------------------------- the guards
\* The goroutines that take pm.mu or cache.mu: main in Start (loadFromDisk),
\* the loop Start spawns (saveToDisk), a caller of Stop, and two goroutines
\* serving Get, Set and Delete.  What the calls do to the store and the files
\* is studied elsewhere; here each call is its lock and unlock steps.  A
\* goroutine at a pc ending in -enter has called Lock or RLock and has not
\* returned from it.
Clients == {"client1", "client2"}
Threads == {"main", "loop", "stop"} \cup Clients

\* mu: the holder of pm.mu; cmu: the holder of cache.mu for writing;
\* readers: the holders of cache.mu for reading; at: the pc of each goroutine;
\* final: the loop took its stopping case; stopping: the channel is closed.
NoGuards ==
    [mu |-> "", cmu |-> "", readers |-> {},
     at |-> [t \in Threads |->
                CASE t = "main" -> "load-enter" [] t = "loop" -> "unstarted" [] OTHER -> "idle"],
     final |-> FALSE, stopping |-> FALSE]

\* pm.mu.Lock() returns to t.
MuFree(g) == g.mu = ""
MuLock(g, t) == [g EXCEPT !.mu = t]
MuUnlock(g) == [g EXCEPT !.mu = ""]

\* cache.mu.Lock() returns to t: no writer and no reader holds it.
CacheFree(g) == g.cmu = "" /\ g.readers = {}
CacheLock(g, t) == [g EXCEPT !.cmu = t]
CacheUnlock(g) == [g EXCEPT !.cmu = ""]

\* cache.mu.RLock() returns to t: no writer holds it.  saveToDisk is the only
\* reader and runs under pm.mu, so a reader never waits behind another.
\* (sync.RWMutex also holds RLock back while a writer waits; that writer
\* waits for another writer only, whose call returns, so the queue is left out.)
CacheReadable(g) == g.cmu = ""
CacheRLock(g, t) == [g EXCEPT !.readers = @ \cup {t}]

\* A saveToDisk that keeps the read guard until it returns.
CacheRUnlockAtReturn(g, t) == g

\* pm.cache.mu.RUnlock() by t.
CacheRUnlock(g, t) == [g EXCEPT !.readers = @ \ {t}]

At(g, t, to) == [g EXCEPT !.at[t] = to]

GuardRest ==
    <<c, now, last, written, pc, clusterVars, ring, rlast, manager, mlast, disk, plast,
      engine, tasks, rep, lister, health>>

\* loadFromDisk: pm.mu.Lock().
LoadLock ==
    /\ guards.at["main"] = "load-enter" /\ MuFree(guards)
    /\ guards' = At(MuLock(guards, "main"), "main", "load-io")
    /\ UNCHANGED GuardRest

\* loadFromDisk returns before it touches the cache (no file, an empty file,
\* an error of Open or Decode); the deferred pm.mu.Unlock() runs, and Start
\* spawns the loop.
LoadReturnEarly ==
    /\ guards.at["main"] = "load-io"
    /\ guards' = At(At(MuUnlock(guards), "main", "started"), "loop", "select")
    /\ UNCHANGED GuardRest

\* loadFromDisk has decoded the file and calls pm.cache.mu.Lock().
LoadDecoded ==
    /\ guards.at["main"] = "load-io"
    /\ guards' = At(guards, "main", "restore-enter")
    /\ UNCHANGED GuardRest

LoadCacheLock ==
    /\ guards.at["main"] = "restore-enter" /\ CacheFree(guards)
    /\ guards' = At(CacheLock(guards, "main"), "main", "restoring")
    /\ UNCHANGED GuardRest

\* loadFromDisk returns: the deferred unlocks run, cache.mu then pm.mu, and
\* Start spawns the loop.
LoadReturn ==
    /\ guards.at["main"] = "restoring"
    /\ guards' = At(At(MuUnlock(CacheUnlock(guards)), "main", "started"), "loop", "select")
    /\ UNCHANGED GuardRest

\* The loop takes a case of its select and calls saveToDisk: pm.mu.Lock().
SaveEnter ==
    /\ guards.at["loop"] = "select"
    /\ \E final \in {FALSE, guards.stopping} :
          guards' = [At(guards, "loop", "save-enter") EXCEPT !.final = final]
    /\ UNCHANGED GuardRest

SaveLock ==
    /\ guards.at["loop"] = "save-enter" /\ MuFree(guards)
    /\ guards' = At(MuLock(guards, "loop"), "loop", "collect-enter")
    /\ UNCHANGED GuardRest

\* saveToDisk: pm.cache.mu.RLock().
SaveRLock ==
    /\ guards.at["loop"] = "collect-enter" /\ CacheReadable(guards)
    /\ guards' = At(CacheRLock(guards, "loop"), "loop", "collecting")
    /\ UNCHANGED GuardRest

\* saveToDisk has copied the items: pm.cache.mu.RUnlock(), then the file I/O.
SaveRUnlock ==
    /\ guards.at["loop"] = "collecting"
    /\ guards' = At(CacheRUnlock(guards, "loop"), "loop", "save-io")
    /\ UNCHANGED GuardRest

\* saveToDisk returns, with or without an error: the deferred pm.mu.Unlock()
\* runs; the loop ends after the stopping case.
SaveReturn ==
    /\ guards.at["loop"] = "save-io"
    /\ guards' = [At(MuUnlock(guards), "loop", IF guards.final THEN "exited" ELSE "select")
                     EXCEPT !.final = FALSE]
    /\ UNCHANGED GuardRest

\* Stop is called: pm.mu.Lock().
StopEnter ==
    /\ guards.at["stop"] = "idle"
    /\ guards' = At(guards, "stop", "stop-enter")
    /\ UNCHANGED GuardRest

StopLock ==
    /\ guards.at["stop"] = "stop-enter" /\ MuFree(guards)
    /\ guards' = At(MuLock(guards, "stop"), "stop", "stop-locked")
    /\ UNCHANGED GuardRest

\* Stop closes the channel and returns.
StopReturn ==
    /\ guards.at["stop"] = "stop-locked"
    /\ guards' = [At(MuUnlock(guards), "stop", "stopped") EXCEPT !.stopping = TRUE]
    /\ UNCHANGED GuardRest

\* Get, Set or Delete is called: c.mu.Lock().
OpEnter(t) ==
    /\ guards.at[t] = "idle"
    /\ guards' = At(guards, t, "op-enter")
    /\ UNCHANGED GuardRest

OpLock(t) ==
    /\ guards.at[t] = "op-enter" /\ CacheFree(guards)
    /\ guards' = At(CacheLock(guards, t), t, "op-locked")
    /\ UNCHANGED GuardRest

\* The call returns: the deferred c.mu.Unlock() runs.
OpReturn(t) ==
    /\ guards.at[t] = "op-locked"
    /\ guards' = At(CacheUnlock(guards), t, "idle")
    /\ UNCHANGED GuardRest

GuardInit ==
    /\ guards = NoGuards
    /\ now = 1
    /\ NoStore /\ NoCluster
    /\ ring = <<>> /\ rlast = <<>> /\ manager = <<>> /\ mlast = <<>>
    /\ disk = <<>> /\ plast = <<>> /\ engine = <<>>
    /\ tasks = <<>> /\ rep = <<>> /\ lister = <<>> /\ health = <<>>

GuardNext ==
    \/ LoadLock \/ LoadReturnEarly \/ LoadDecoded \/ LoadCacheLock \/ LoadReturn
    \/ SaveEnter \/ SaveLock \/ SaveRLock \/ SaveRUnlock \/ SaveReturn
    \/ StopEnter \/ StopLock \/ StopReturn
    \/ \E t \in Clients : OpEnter(t) \/ OpLock(t) \/ OpReturn(t)

SpecGuards == GuardInit /\ [][GuardNext]_vars

\* ---------------------------------------------------------------- properties
Size(cache) == Cardinality(DOMAIN cache.items)

\* This step is a call of Cache.Set for key.
SetStep(key) == last'.op = "set" /\ last'.key = key /\ last'.at = now /\ now' = now

\* The access count of a resident key, a key that was never read counting as 0.
CountOf(cache, k) == IF k \in DOMAIN cache.accessCount THEN cache.accessCount[k] ELSE 0

\* C1: the number of stored entries is never greater than the capacity.
CapacityBound == Size(c) <= c.maxItems

\* C2: a get of a key whose latest set had ttl 0, and was not deleted, evicted
\* or overwritten since, returns the value of that set.
NoExpiryReturnsValue ==
    (last.op = "get" /\ written[last.key].at > 0 /\ written[last.key].ttl = 0)
        => (last.found /\ last.value = written[last.key].value)

\* C3: a get of a key whose latest set (at time t, ttl > 0, not deleted, evicted
\* or overwritten since) returns absent when issued after t + ttl and returns
\* the value of that set when issued between t and t + ttl.
TTLExpiry ==
    (last.op = "get" /\ written[last.key].at > 0 /\ written[last.key].ttl > 0)
        => LET w == written[last.key] IN
           IF last.at > w.at + w.ttl
           THEN ~last.found
           ELSE last.found /\ last.value = w.value

TTLExpiryWitness ==
    /\ last.op = "get" /\ written[last.key].ttl > 0
    /\ last.at > written[last.key].at + written[last.key].ttl
    /\ ~last.found
    /\ last.key \notin DOMAIN c.items

\* This step is a call of Cache.Get for key.
GetStep(key) == last'.op = "get" /\ last'.key = key /\ last'.at = now /\ now' = now

\* This step is a call of Cache.Delete for key.
DeleteStep(key) == last'.op = "delete" /\ last'.key = key /\ last'.at = now /\ now' = now

\* C11 (as stated): a get of an entry whose Expiration is non-zero and equals
\* the current clock value returns absent and removes the entry.
ExpiresAtBoundary ==
    [][ \A key \in AllKeys :
            (GetStep(key) /\ key \in DOMAIN c.items
                /\ c.items[key].Expiration # 0 /\ c.items[key].Expiration = now)
            => (~last'.found /\ key \notin DOMAIN c'.items) ]_vars

\* C11 (amended): a get of an entry whose Expiration is non-zero and equals the
\* current clock value returns the entry's value and keeps the entry; it is
\* absent only once the clock is past Expiration.
LivesAtBoundary ==
    [][ \A key \in AllKeys :
            (GetStep(key) /\ key \in DOMAIN c.items
                /\ c.items[key].Expiration # 0 /\ c.items[key].Expiration = now)
            => /\ last'.found
               /\ last'.value = c.items[key].Value
               /\ key \in DOMAIN c'.items ]_vars

LivesAtBoundaryWitness ==
    /\ last.op = "get" /\ last.found
    /\ written[last.key].ttl > 0
    /\ last.at = written[last.key].at + written[last.key].ttl
    /\ last.key \in DOMAIN c.items
    /\ c.items[last.key].Expiration = last.at

\* C12: once a delete has undone the set of a key, every get of that key
\* returns absent until the key is set again; the delete leaves neither an
\* entry nor an access count for the key, and a further delete of the key
\* changes nothing in the store.
DeleteThenAbsent ==
    [][ \A key \in AllKeys :
          /\ (GetStep(key) /\ written[key] = Deleted) => ~last'.found
          /\ DeleteStep(key) =>
                (key \notin DOMAIN c'.items /\ key \notin DOMAIN c'.accessCount)
          /\ (DeleteStep(key) /\ written[key] = Deleted) => c' = c ]_vars

DeleteThenAbsentWitness ==
    /\ last.op = "get" /\ ~last.found
    /\ written[last.key] = Deleted
    /\ last.key \notin DOMAIN c.items

\* C7: under lru a set of a new key into a full store removes the entry with
\* the smallest LastAccess, and the scripted scenario (set a, set b, set c,
\* get a, set d; capacity 3, ttl 0) ends with exactly a, c and d resident.
LRUEvictsOldest ==
    [][ /\ \A key \in AllKeys :
            (c.evictionType = "lru" /\ SetStep(key) /\ key \notin DOMAIN c.items
                /\ Size(c) = c.maxItems)
            => \E victim \in DOMAIN c.items :
                 /\ \A j \in DOMAIN c.items :
                       c.items[victim].LastAccess <= c.items[j].LastAccess
                 /\ DOMAIN c'.items = ((DOMAIN c.items) \ {victim}) \cup {key}
        /\ (pc' = Len(LRUScript) /\ pc = Len(LRUScript) - 1)
            => DOMAIN c'.items = {"a", "c", "d"} ]_vars

\* C8: under lfu a set of a new key into a full store removes the entry with
\* the smallest access count, an entry never read counting as 0.
LFUEvictsLeastCounted ==
    [][ \A key \in AllKeys :
            (c.evictionType = "lfu" /\ SetStep(key) /\ key \notin DOMAIN c.items
                /\ Size(c) = c.maxItems)
            => \E victim \in DOMAIN c.items :
                 /\ \A j \in DOMAIN c.items : CountOf(c, victim) <= CountOf(c, j)
                 /\ DOMAIN c'.items = ((DOMAIN c.items) \ {victim}) \cup {key} ]_vars

\* C9: a set of a new key into a store holding exactly maxItems entries leaves
\* exactly maxItems entries: one earlier entry is gone and the new key is there.
SetAtCapacityKeepsSize ==
    [][ \A key \in AllKeys :
            (SetStep(key) /\ key \notin DOMAIN c.items /\ Size(c) = c.maxItems)
            => /\ Size(c') = c.maxItems
               /\ key \in DOMAIN c'.items
               /\ Cardinality((DOMAIN c.items) \ (DOMAIN c'.items)) = 1 ]_vars

\* C10: a set that overwrites a key already present in a full store evicts
\* nothing: every key present before the set is present after it.
OverwriteEvictsNothing ==
    [][ \A key \in AllKeys :
            (SetStep(key) /\ key \in DOMAIN c.items /\ Size(c) >= c.maxItems)
            => (DOMAIN c.items) \subseteq (DOMAIN c'.items) ]_vars

\* ---------------------------------------------------------------- cluster properties
\* Every process knows every process.
FullViews == \A n \in Nodes : DOMAIN nms[n].nodes = Nodes

\* The owner of key in the view of process n.
OwnerAt(n, key) == GetNodeForKey(nms[n], key).ID

\* The Local Store of process n holds value for key.
Holds(cs, n, key, value) ==
    key \in DOMAIN cs[n].items /\ cs[n].items[key].Value = value

\* This step is a client request of kind op, answered to process n's client.
ClientStep(op, n) == resp'.op = op /\ resp'.node = n /\ nms' = nms

\* C4: in the three-node cluster a client set with ttl 0 accepted by the owner
\* reaches the Local Store of the two other processes.  The handler starts no
\* task and leaves no message in flight, so what has not reached the replicas
\* when the handler returns never reaches them.
SetReachesReplicas ==
    [][ \A n \in Nodes :
            (ClientStep("set", n) /\ FullViews /\ OwnerAt(n, resp'.key) = n
                /\ resp'.status \in {200, 201} /\ resp'.ttl = 0)
            => \A m \in Nodes \ {n} : Holds(caches', m, resp'.key, resp'.value) ]_vars

\* C5: with identical views of three nodes, a set issued at a process other
\* than the owner is stored at the owner, and a later get issued at a process
\* other than the owner returns the value that was set.
ForwardedSetThenGet ==
    [][ \A n \in Nodes :
          /\ (ClientStep("set", n) /\ FullViews /\ OwnerAt(n, resp'.key) # n)
                => Holds(caches', OwnerAt(n, resp'.key), resp'.key, resp'.value)
          /\ (ClientStep("get", n) /\ FullViews /\ OwnerAt(n, resp'.key) # n
                /\ written[resp'.key].at > 0 /\ written[resp'.key].ttl = 0)
                => (resp'.status = 200 /\ resp'.rvalue = written[resp'.key].value) ]_vars

\* C6: a delete received by a process that is not the owner of the key leaves
\* that process's Local Store unchanged and removes the key at the owner.
DeleteIsForwarded ==
    [][ \A n \in Nodes :
            (ClientStep("delete", n) /\ OwnerAt(n, resp'.key) \notin {n, ""})
            => /\ caches'[n] = caches[n]
               /\ resp'.key \notin DOMAIN caches'[OwnerAt(n, resp'.key)].items ]_vars

\* ---------------------------------------------------------------- ring properties
\* C14: adding a node that is not in the ring and then removing it leaves the
\* ring (sorted hash list, hash-to-node map, node set) as it was before the
\* add, also when a hash of the new node is already on the ring.
AddThenRemoveRestores ==
    [][ \A node \in RingNodes :
            (rlast.op = "add" /\ rlast.node = node /\ node \notin rlast.before.nodes
                /\ rlast'.op = "remove" /\ rlast'.node = node)
            => ring' = rlast.before ]_vars

\* The index of the first ring entry whose hash is >= hash, 1 when there is none.
FirstAtOrAfter(hashRing, hash) ==
    LET at == {i \in 1..Len(hashRing) : hashRing[i] >= hash}
    IN  IF at = {} THEN 1 ELSE CHOOSE i \in at : \A j \in at : i <= j

\* C15: after any sequence of adds and removes, Get(key) returns the node of
\* the first ring entry whose hash is >= hashKey(key), wrapping to the first
\* entry, and returns "" only when the ring has no entries.
PrimaryIsFirstAtOrAfter ==
    rlast.op = "get" =>
        IF Len(ring.hashRing) = 0 THEN rlast.result = ""
        ELSE /\ rlast.result # ""
             /\ rlast.result =
                  NodeOf(ring.nodeMap,
                         ring.hashRing[FirstAtOrAfter(ring.hashRing, hashKey(rlast.key))])

\* ---------------------------------------------------------------- membership properties
\* No node id occurs twice in the list.
Distinct(seq) == \A i, j \in 1..Len(seq) : seq[i] = seq[j] => i = j

\* What is said of the owners returned for a count n.
OwnersAsClaimed(owners, n) ==
    /\ Distinct(owners)
    /\ Len(owners) <= n
    /\ Cardinality(DOMAIN manager.nodes) >= n => Len(owners) = n
    /\ (Cardinality(DOMAIN manager.nodes) = 1 /\ n >= 1) => owners = <<manager.localNode>>

CheckStep == mlast'.op = "check" /\ mlast'.at = now /\ now' = now

\* C19: a health check marks Down every node other than the local one whose
\* LastSeen is more than twice the check interval ago, leaves the status of
\* every node within that window as it was, and leaves the local node alone.
HealthCheckMarksDown ==
    [][ CheckStep =>
          \A id \in DOMAIN manager.nodes :
            LET node == manager.nodes[id]
                late == now - node.LastSeen > 2 * manager.nodeCheckTime
            IN  /\ (id # manager.localNode /\ late)
                      => manager'.nodes[id].Status = NodeStatusDown
                /\ ~late => manager'.nodes[id].Status = node.Status
                /\ id = manager.localNode => manager'.nodes[id] = node ]_vars

HealthCheckWitness ==
    /\ mlast.op = "check" /\ mlast.at = now
    /\ \E id \in DOMAIN manager.nodes :
          /\ id # manager.localNode
          /\ now - manager.nodes[id].LastSeen > 2 * manager.nodeCheckTime
          /\ manager.nodes[id].Status = NodeStatusDown
    /\ \E id \in DOMAIN manager.nodes :
          /\ id # manager.localNode
          /\ now - manager.nodes[id].LastSeen = 2 * manager.nodeCheckTime
          /\ manager.nodes[id].Status = NodeStatusUp
    /\ now - manager.nodes[manager.localNode].LastSeen > 2 * manager.nodeCheckTime
    /\ manager.nodes[manager.localNode].Status = NodeStatusUp

\* This step is a registration of id at addr.
RegisterStep(id, addr) ==
    mlast'.op = "register" /\ mlast'.id = id /\ mlast'.addr = addr
        /\ mlast'.at = now /\ now' = now

\* The NodeManager with every LastSeen blanked.
ApartFromLastSeen(nm) ==
    [nm EXCEPT !.nodes = [j \in DOMAIN nm.nodes |-> [nm.nodes[j] EXCEPT !.LastSeen = 0]]]

\* The number of ring entries that belong to id.
RingEntriesOf(ch, id) ==
    Cardinality({i \in 1..Len(ch.hashRing) : NodeOf(ch.nodeMap, ch.hashRing[i]) = id})

\* C20: a registration of (id, addr) that repeats the call before it leaves
\* the membership table and the ring as the first left them, LastSeen apart,
\* and after a registration the ring holds the node's virtual entries once.
RegisterTwiceIsOnce ==
    [][ \A id \in Nodes : \A addr \in {AddrOf[id], MovedAddr} :
          RegisterStep(id, addr) =>
            /\ mlast'.repeat => ApartFromLastSeen(manager') = ApartFromLastSeen(manager)
            /\ id \in manager'.hash.nodes
            /\ RingEntriesOf(manager'.hash, id) = Replicas ]_vars

RegisterTwiceWitness ==
    /\ mlast.op = "register" /\ mlast.repeat
    /\ mlast.id # manager.localNode
    /\ mlast.at > 1
    /\ manager.nodes[mlast.id].LastSeen = mlast.at
    /\ RingEntriesOf(manager.hash, mlast.id) = Replicas

\* ---------------------------------------------------------------- persistence properties
\* The keys of store that are expired neither at time ts nor at time tr.
LiveKeys(store, ts, tr) ==
    {k \in DOMAIN store.items :
        ~IsExpired(store.items[k], ts) /\ ~IsExpired(store.items[k], tr)}

\* C16: a store restored from the snapshot of a store S holds exactly the keys
\* of S that are expired neither when the snapshot is taken nor when it is
\* restored, each with the Value and the Expiration it has in S and with
\* access count 1.
RestoreOfSnapshot ==
    (plast.op = "load" /\ disk.target.exists) =>
        LET S == disk.source.store
            R == plast.result
            live == LiveKeys(S, disk.source.at, plast.at)
        IN  /\ DOMAIN R.items = live
            /\ DOMAIN R.accessCount = live
            /\ \A k \in live :
                  /\ R.items[k].Value = S.items[k].Value
                  /\ R.items[k].Expiration = S.items[k].Expiration
                  /\ R.accessCount[k] = 1

\* C17: while and after a snapshot is taken the target path holds no file or
\* a whole encoding: the target changes only by the rename of a temp file that
\* holds the whole encoding of the collected data, and after a save that
\* succeeded the target holds exactly that encoding.
SnapshotInstalledByRename ==
    [][ /\ disk'.target.exists => disk'.target.complete
        /\ disk'.target # disk.target =>
              /\ engine.pc = "synced"
              /\ disk.tmp = FileOf(engine.data)
              /\ disk'.target = disk.tmp
        /\ (engine.pc = "synced" /\ engine'.pc # "synced"
                /\ plast'.op = "save" /\ plast'.result = "saved")
              => disk'.target = FileOf(engine.data) ]_vars

SnapshotInstalledWitness ==
    /\ engine.alive /\ engine.pc = "created"
    /\ disk.tmp = PartFile
    /\ disk.target.exists /\ disk.target.complete
    /\ disk.target.data # engine.data

\* C18: when Stop returns, and when the process shuts down, one final snapshot
\* has been taken and has completed.
FinalSnapshotOnStop ==
    [][ /\ (~engine.stopping /\ engine'.stopping) => engine'.finalSaves = 1
        /\ (engine.alive /\ ~engine'.alive /\ plast'.op = "shutdown")
              => engine'.finalSaves = 1 ]_vars

\* C21: in every reachable state of a NodeManager, whatever registrations,
\* heartbeats, health checks and HandleNodeFailure calls came before, the
\* local node's descriptor has status Up.
LocalNodeStaysUp == GetLocalNode(manager).Status = NodeStatusUp

\* This step is a replication goroutine that ran to its end.
SendStep == rep'.op = "send" /\ tasks' # tasks

\* C22: a request served at /replicate/set or /replicate/delete, sent by a
\* replication goroutine or by any other client, is applied to the Local Store
\* of the process that received it, and that process starts no replication
\* goroutine for it: the goroutines alive after the step are those alive
\* before it, without the one that ran.
ReplicaAppliesAndStops ==
    [][rep'.op \in {"send", "arrive"} /\ rep'.status = 200
        => /\ tasks' = IF SendStep THEN tasks (-) SetToBag({rep'.task}) ELSE tasks
           /\ IF rep'.task.method = "POST"
              THEN Holds(caches', rep'.reached, rep'.task.key, rep'.task.value)
              ELSE rep'.task.key \notin DOMAIN caches'[rep'.reached].items]_vars

ReplicaAppliesWitness ==
    /\ rep.op = "send" /\ rep.status = 200 /\ rep.task.method = "POST"
    /\ Holds(caches, rep.reached, rep.task.key, rep.task.value)

\* C23: when a process accepted POST /set and applied the set to its Local
\* Store, Client.Set returns a nil error to the caller that sent it.
ClientSetSucceedsWhenApplied ==
    [][\A n \in Nodes :
          ClientStep("set", n) /\ resp'.status \in {200, 201}
              /\ Holds(caches', n, resp'.key, resp'.value)
          => ~ClientSetError(resp'.status)]_vars

\* This step is a client request of kind op that process n forwarded.
ForwardedStep(op, n) == ClientStep(op, n) /\ Forwards(n, resp'.key)

\* C24: when a process forwards a set to the owner and the owner answers, the
\* owner has applied set(key, value, ttl) with the client's key, value and
\* ttl to its Local Store.
ForwardedSetIsApplied ==
    [][\A n \in Nodes :
          LET owner == OwnerAt(n, resp'.key) IN
          ForwardedStep("set", n) /\ OwnerAt(owner, resp'.key) = owner
              /\ resp'.status \notin {0, 500}
          => /\ Holds(caches', owner, resp'.key, resp'.value)
             /\ caches'[owner].items[resp'.key].Expiration = ExpirationOf(now, resp'.ttl)]_vars

\* C25: the response a process gives for a request it forwarded is the
\* owner's response to the forwarded request, with the same status and the
\* same body and nothing written after it; when the owner cannot be reached
\* the client gets status 500 and no Local Store has served the request.
ForwardedResponseIsOwners ==
    [][\A n \in Nodes : \A op \in {"get", "set"} :
          ForwardedStep(op, n)
          => \/ resp'.status = 500 /\ caches' = caches /\ ~resp'.trailer
             \/ \E o \in Serve(Listener(GetNodeForKey(nms[n], resp'.key).Address),
                               ForwardedRequest(
                                   IF op = "get"
                                   THEN Request("GET", "/get", resp'.key, NoBody)
                                   ELSE Request("POST", "/set", "",
                                                Body(resp'.key, resp'.value, resp'.ttl))),
                               caches, MaxHops - 1) :
                   /\ caches' = o.caches
                   /\ resp'.status = o.status
                   /\ resp'.rvalue = o.rvalue
                   /\ resp'.trailer = o.trailer]_vars

\* C26: a delete request started by ReplicateDelete for a replica, unless the
\* replica refuses the connection, is served by that replica's
\* HandleReplicateDelete with status 200 and leaves the key out of the
\* replica's Local Store.
ReplicatedDeleteRemoves ==
    [][SendStep /\ rep'.task.method = "DELETE" /\ ~rep'.refused
        => /\ rep'.reached = rep'.task.node
           /\ rep'.status = 200
           /\ rep'.task.key \notin DOMAIN caches'[rep'.task.node].items]_vars

\* The elements of a sequence.
Elems(seq) == {seq[i] : i \in DOMAIN seq}

\* C27: ReplicateSet starts exactly one request for each node of
\* GetNodesForKey(key, replicaCount + 1) other than the local node, addressed
\* to POST /replicate/set at that node's address with the key, value and ttl
\* of the call, and starts no other request.
ReplicateSetAddressesReplicas ==
    rep.op = "replicate-set"
    => LET others == Elems(rep.owners) \ {rep.from}
           sentTo(m) == {i \in DOMAIN rep.spawned :
                           /\ rep.spawned[i].node = nms[rep.from].nodes[m].Address
                           /\ rep.spawned[i].method = "POST"
                           /\ rep.spawned[i].path = "/replicate/set"
                           /\ rep.spawned[i].key = rep.key}
       IN  /\ \A m \in others : Cardinality(sentTo(m)) = 1
           /\ Len(rep.spawned) = Cardinality(others)

\* The nodes met from ring index start (from 1) on, clockwise and wrapping,
\* each listed once, until n are listed or the ring has been walked once.
RECURSIVE Clockwise(_, _, _, _, _)
Clockwise(ch, start, i, n, nodes) ==
    IF i >= Len(ch.hashRing) \/ Len(nodes) >= n THEN nodes
    ELSE LET nodeId == NodeOf(ch.nodeMap, ch.hashRing[((start - 1 + i) % Len(ch.hashRing)) + 1])
         IN  Clockwise(ch, start, i + 1, n,
                       IF nodeId \in Elems(nodes) THEN nodes ELSE Append(nodes, nodeId))

\* C28: for n >= 1, GetNodesForKey(key, n) is the primary followed by the
\* nodes met walking the ring clockwise from the ring entry the key falls on
\* (the first entry at or after hashKey(key)), skipping nodes already listed.
OwnersClockwiseFromKey ==
    mlast.op = "owners" /\ mlast.n >= 1
    => LET ch == manager.hash
           start == FirstAtOrAfter(ch.hashRing, hashKey(mlast.key))
       IN  mlast.owners = Clockwise(ch, start, 1, mlast.n, <<RingGet(ch, mlast.key)>>)

\* C29: a node-list request served while registrations arrive always ends
\* with a response, and the slice it encodes has exactly the length of the
\* snapshot GetAllNodes gave it, one entry per descriptor.
ListMatchesSnapshot ==
    lister.pc \in {"responded", "panicked"}
    => /\ lister.pc = "responded"
       /\ lister.size = Cardinality(lister.snapshot)
       /\ lister.filled = lister.size

\* C30: once the stop signal is given, the persistence loop and the
\* health-check loop each come to their end.
StopEndsBothLoops ==
    engine.stopping ~> (engine.pc = "exited" /\ health.pc = "exited")

\* The guard a goroutine has asked for and not been given: "mu" for pm.mu,
\* "cmu" for cache.mu, "" when it waits for none.
Wants(t) ==
    CASE guards.at[t] \in {"load-enter", "save-enter", "stop-enter"} -> "mu"
      [] guards.at[t] \in {"restore-enter", "collect-enter", "op-enter"} -> "cmu"
      [] OTHER -> ""

\* The goroutines that keep t from the guard it asked for.
Blockers(t) ==
    CASE Wants(t) = "mu" -> {guards.mu} \ {""}
      [] guards.at[t] = "collect-enter" -> {guards.cmu} \ {""}
      [] Wants(t) = "cmu" -> ({guards.cmu} \ {""}) \cup guards.readers
      [] OTHER -> {}

\* A set of goroutines each of which waits for a guard that only members of
\* the set hold.
Deadlocked(S) == S # {} /\ \A t \in S : Blockers(t) # {} /\ Blockers(t) \subseteq S

\* The pcs between the Lock and the Unlock of pm.mu in saveToDisk and
\* loadFromDisk.
InSection(t) ==
    guards.at[t] \in {"load-io", "restore-enter", "restoring",
                      "collect-enter", "collecting", "save-io"}

HoldsCacheGuard(t) == guards.cmu = t \/ t \in guards.readers

\* C31: under every interleaving of the loop's saves, the stopping save, Stop,
\* the restore of Start and store calls, no set of goroutines is deadlocked;
\* a goroutine that asks for pm.mu holds no guard of the cache, and one that
\* asks for the cache's guard from saveToDisk or loadFromDisk holds pm.mu; at
\* most one goroutine is inside saveToDisk or loadFromDisk; and saveToDisk
\* holds no guard of the cache while it does its file I/O.
GuardsInOrder ==
    /\ \A S \in SUBSET Threads : ~Deadlocked(S)
    /\ \A t \in Threads : Wants(t) = "mu" => ~HoldsCacheGuard(t)
    /\ \A t \in {"main", "loop"} : (Wants(t) = "cmu" \/ HoldsCacheGuard(t)) => guards.mu = t
    /\ Cardinality({t \in Threads : InSection(t)}) <= 1
    /\ guards.at["loop"] = "save-io" => ~HoldsCacheGuard("loop")

GuardsInOrderWitness ==
    /\ guards.at["loop"] = "save-io" /\ guards.final
    /\ guards.at["stop"] = "stopped"
    /\ \E t \in Clients : guards.at[t] = "op-locked"
    /\ \E t \in Clients : guards.at[t] = "op-enter"

\* A step of saveToDisk after it has copied the items.
SaveStep ==
    /\ engine.alive /\ engine'.alive
    /\ engine.pc \in {"collected", "created", "encoded", "synced"}
    /\ engine'.pc # engine.pc

\* The step in which Rename succeeds.
InstallStep == SaveStep /\ engine.pc = "synced" /\ plast'.result = "saved"

\* A step in which saveToDisk returns an error.
FailedSaveStep ==
    /\ SaveStep
    /\ engine'.pc \in {"select", "exited"}
    /\ plast'.result \in {"create failed", "encode failed", "sync failed", "rename failed"}

\* A step in which a process starts on a path that holds no file or a file
\* that does not decode.
RestoreWithoutFileStep ==
    /\ ~engine.alive /\ engine'.alive
    /\ ~disk.target.exists \/ ~disk.target.complete

\* C32: no step of a saveToDisk that fails at Create, Encode, Sync or Rename
\* (no step of a save but a Rename that succeeds) changes the target file or
\* the cache, and after a tick's failed save the loop waits in its select
\* again, where the next tick saves again; a start
\* on a missing file or one that does not decode leaves the cache empty and
\* the process running with its loop started.
FailuresLeaveStateAlone ==
    [][/\ (SaveStep /\ ~InstallStep) => (disk'.target = disk.target /\ c' = c)
       /\ FailedSaveStep => (~engine.final => engine'.pc = "select")
       /\ RestoreWithoutFileStep =>
            (/\ DOMAIN c'.items = {} /\ DOMAIN c'.accessCount = {}
             /\ engine' = Started /\ disk' = disk)]_vars

FailuresLeaveStateAloneWitness ==
    /\ plast.op = "save" /\ plast.result = "rename failed"
    /\ engine.alive /\ engine.pc = "select"
    /\ disk.target = PartFile
    /\ disk.tmp.complete /\ DOMAIN disk.tmp.data # {}
    /\ DOMAIN c.items # {}

\* The ids whose virtual nodes the ring's lookups can return.
Reachable(ch) == {ch.nodeMap[h] : h \in DOMAIN ch.nodeMap}

\* C33: the ids of the ring are the ids of the membership table in every
\* state, every id of the table (Up or Down) owns virtual nodes that Get and
\* GetNodesForKey return, no step removes a descriptor, and a heartbeat
\* naming an unknown id changes nothing of the manager.
RingIsTable ==
    /\ manager.hash.nodes = DOMAIN manager.nodes
    /\ [][/\ manager'.hash.nodes = DOMAIN manager'.nodes
          /\ Reachable(manager'.hash) = DOMAIN manager'.nodes
          /\ DOMAIN manager.nodes \subseteq DOMAIN manager'.nodes
          /\ (mlast'.op = "heartbeat" /\ mlast'.id \notin DOMAIN manager.nodes)
                => manager' = manager]_vars

RingIsTableWitness ==
    /\ mlast.op = "heartbeat" /\ mlast.id \notin DOMAIN manager.nodes
    /\ \E id \in DOMAIN manager.nodes, key \in MemberKeys :
          /\ manager.nodes[id].Status = NodeStatusDown
          /\ RingGet(manager.hash, key) = id
          /\ id \in Elems(GetNodesForKey(manager, key, ReplicaCount))

\* C34: in every state of a store under set, get, delete, eviction, removal
\* of expired entries and restore, every key that has an access count is a
\* stored entry.
CountedKeysAreStored == DOMAIN c.accessCount \subseteq DOMAIN c.items

\* A set has evicted a key that had an access count, in a store that
\* has a file, and another counted key stays.
CountedKeysAreStoredWitness ==
    /\ plast.op = "set" /\ disk.target.exists
    /\ \E k \in plast.result : k \notin DOMAIN c.items
    /\ DOMAIN c.accessCount # {}

\* C35: a store that a process has just restored from its file holds no more
\* entries than the capacity the process was started with.  (The claim's
\* other half, the same bound after further set, get and delete calls,
\* has this as its case of no further call.)
RestoreWithinCapacity == plast.op = "load" => Size(c) <= c.maxItems

\* C36: every call of Stop returns to its caller, whatever calls came before
\* it: a Stop that follows a Stop does too.
StopAlwaysReturns == plast.op = "stop" => plast.result = "returned"

====
